---- MODULE Spec2Model ----
(***************************************************************************)
(* The IPAM allocation engine of quark (quark/ipam.py) and the port        *)
(* handlers that drive it (quark/plugin_modules/ports.py), as a state      *)
(* machine over the address store.                                         *)
(*                                                                         *)
(* The address store (quark.db.api, quark.db.models) is not among the      *)
(* source files; its queries are modelled from their call sites and from   *)
(* the store contract of spec.md, section 6.                               *)
(*                                                                         *)
(* Addresses are integers, as the store keeps them.  TLC's integers are    *)
(* 32 bit wide, so the IPv4/IPv6 boundary of netaddr (2^32) is scaled to   *)
(* V6Floor: an integer below it reads as an IPv4 address, one from it on   *)
(* as an IPv6 address.                                                     *)
(***************************************************************************)
EXTENDS Integers, Sequences, FiniteSets, TLC

VARIABLES
    subnets,    \* subnet id -> Subnet row (cidr, policy, cursor)
    ips,        \* the IpAddress rows
    nextId,     \* the id the next created IpAddress row gets
    portIps,    \* port id -> ids of the IpAddress rows the port owns
    now,        \* timeutils.utcnow()
    netStrategy,\* net["ipam_strategy"]
    last,       \* what the last engine call was given and what it returned
    hist,       \* the fresh-draw model's history: the addresses drawn, in
                \* order, and the number of calls made
    ranges,     \* MAC range id -> MacAddressRange row
    macs,       \* the MacAddress rows
    pc,         \* concurrent callers: the place each one is at
    held,       \* concurrent callers: the rows each one's transaction locks
    loc         \* concurrent callers: each one's local variables

vars == <<subnets, ips, nextId, portIps, now, netStrategy, last, hist,
          ranges, macs, pc, held, loc>>

ipVars == <<subnets, ips, nextId, portIps, now, netStrategy, last, hist>>
macVars == <<ranges, macs>>
procVars == <<pc, held, loc>>

-----------------------------------------------------------------------------
(* Bounds of the model *)

MaxTime == 1        \* the clock stops here
MaxRows == 2        \* IpAddress rows ever created in the life-cycle model
MaxCalls == 7       \* calls made in the fresh-draw model

-----------------------------------------------------------------------------
(* Values *)

None == 0 - 1                   \* Python's None where an integer may stand
NoSegment == "none"             \* segment_id=None
NetId == "net1"
Tenants == {"t1", "t2"}
LifeTenants == {"t1"}           \* the tenant of the life-cycle model
LifePorts == {"p1"}             \* the port of the life-cycle model
Ports == {"p1", "p2"}
Strategies == {"ANY", "BOTH", "BOTH_REQUIRED"}

V6Floor == 2 ^ 30               \* stands for 2^32
Net4 == 10 * (2 ^ 24)           \* 10.0.0.0
Net6 == V6Floor + 2 ^ 16        \* an IPv6 prefix

\* CONF.QUARK.ipam_reuse_after, in ticks of the clock
ReuseAfter == 1

\* netaddr.IPAddress(int).version
IPVersion(n) == IF n < V6Floor THEN 4 ELSE 6

\* netaddr: ip in IPNetwork(subnet["cidr"])
InCidr(a, sub) ==
    /\ IPVersion(a) = sub.ip_version
    /\ sub.first <= a
    /\ a < sub.first + sub.size

\* netaddr: IPAddress(int(address), version=cidr.version) in cidr
InCidrAs(a, sub) == sub.first <= a /\ a < sub.first + sub.size

\* models.IPPolicy.get_ip_policy_cidrs(subnet): the IPSet of the excluded
\* ranges, as the set of its addresses (ranges that overlap are merged)
PolicyCidrs(sub) ==
    UNION { {a \in r.lo .. r.hi : TRUE} : r \in sub.policy }

Range(lo, hi) == [lo |-> lo, hi |-> hi]

\* A Subnet row
MkSubnet(id, seg, ver, first, size, policy, cursor) ==
    [id |-> id, network_id |-> NetId, segment_id |-> seg, ip_version |-> ver,
     first |-> first, size |-> size, policy |-> policy,
     next_auto_assign_ip |-> cursor]

\* The store's database, as the engine's functions pass it along
Db(s, i, n) == [subnets |-> s, ips |-> i, nextId |-> n]

-----------------------------------------------------------------------------
(* The transactional session.  A session holds the database as the          *)
(* transaction sees it, the database as it was when the outermost           *)
(* transaction began, and the depth of the open with-blocks.                *)

Session(db) == [db |-> db, saved |-> db, depth |-> 0]

\* A begin that does not join the transaction it finds open: it starts one
\* of its own and so makes what was done before it permanent
SessionBeginAlone(s) == [s EXCEPT !.saved = s.db, !.depth = @ + 1]

\* with context.session.begin(subtransactions=True): joins the transaction
\* that is open, or begins one
SessionBegin(s) ==
    IF s.depth = 0
    THEN [s EXCEPT !.saved = s.db, !.depth = 1]
    ELSE [s EXCEPT !.depth = @ + 1]

\* a with-block left normally (the outermost one commits)
SessionCommit(s) == [s EXCEPT !.depth = @ - 1]

\* a with-block left by an exception: the transaction is rolled back
SessionRollback(s) == [s EXCEPT !.db = s.saved, !.depth = @ - 1]

-----------------------------------------------------------------------------
(* The address store's queries over IpAddress and Subnet rows *)

RowById(db, id) == CHOOSE r \in db.ips : r.id = id

\* order_by="address", scope=ONE; rows of one address come in id order
FirstByAddress(S) ==
    CHOOSE r \in S : \A q \in S :
        \/ r.address < q.address
        \/ (r.address = q.address /\ r.id <= q.id)

\* The value of subnet_id in a query: subnet ids, or (attempt_to_reallocate_ip
\* rebinds its parameter) Subnet rows, which equal no subnet id
SubnetIds(ids) == [isRows |-> FALSE, ids |-> ids]
SubnetRows(ids) == [isRows |-> TRUE, ids |-> ids]
Truthy(sel) == sel.ids # {}
SubnetIdIn(r, sel) == ~sel.isRows /\ r.subnet_id \in sel.ids

\* reuse_after: the row was deallocated at least reuse_after ago; no gate
\* when reuse_after is None
AgedOut(r, reuse_after) ==
    reuse_after # None =>
        (r.deallocated_at # None /\ r.deallocated_at <= now - reuse_after)

\* db_api.ip_address_find(elevated, network_id, reuse_after, deallocated=True,
\*     ip_address, lock_mode=True, version, order_by="address"[, subnet_id])
DeallocatedIps(db, reuse_after, versions, ip_address, sub_ids) ==
    { r \in db.ips :
        /\ r.network_id = NetId
        /\ r.deallocated
        /\ AgedOut(r, reuse_after)
        /\ (ip_address # None => r.address = ip_address)
        /\ r.version \in versions
        /\ (Truthy(sub_ids) => SubnetIdIn(r, sub_ids)) }

\* a lookup that passes over the deallocated rows
IpOfTenantAllocated(db, ip_address, tenant) ==
    { r \in db.ips :
        /\ r.network_id = NetId
        /\ r.address = ip_address
        /\ r.used_by_tenant_id = tenant
        /\ ~r.deallocated }

\* db_api.ip_address_find(context, network_id, ip_address,
\*     used_by_tenant_id=context.tenant_id, scope=ONE)
IpOfTenant(db, ip_address, tenant) ==
    { r \in db.ips :
        /\ r.network_id = NetId
        /\ r.address = ip_address
        /\ r.used_by_tenant_id = tenant }

\* a lookup that does not look at the segment
SubnetFindAnySegment(db, segment_id) ==
    { id \in DOMAIN db.subnets : db.subnets[id].network_id = NetId }

\* db_api.subnet_find(elevated, network_id, segment_id)
SubnetFind(db, segment_id) ==
    { id \in DOMAIN db.subnets :
        /\ db.subnets[id].network_id = NetId
        /\ db.subnets[id].segment_id = segment_id }

\* the occupied-address count subnet_find_allocation_counts pairs a subnet with
IpsInSubnet(db, id) ==
    Cardinality({ r \in db.ips : r.subnet_id = id /\ ~r.deallocated })

\* the stable order subnets are listed in
SubnetOrder == <<"s1", "s2", "s6">>

\* db_api.subnet_find_allocation_counts(context, net_id, segment_id,
\*     scope=ALL, subnet_id, **filters): the ids, in order
SubnetCandidates(db, segment_id, subnet_ids, ip_version) ==
    SelectSeq(SubnetOrder, LAMBDA id :
        /\ id \in DOMAIN db.subnets
        /\ db.subnets[id].network_id = NetId
        /\ (segment_id # NoSegment => db.subnets[id].segment_id = segment_id)
        /\ (subnet_ids # {} => id \in subnet_ids)
        /\ (ip_version # None => db.subnets[id].ip_version = ip_version))

\* db_api.ip_address_create(context, address, subnet_id, version, network_id)
\* and address["deallocated"] = 0
NewIp(db, tenant, address, sub) ==
    [id |-> db.nextId, address |-> address, subnet_id |-> sub.id,
     network_id |-> NetId, version |-> sub.ip_version,
     used_by_tenant_id |-> tenant, deallocated |-> FALSE,
     deallocated_at |-> None]

-----------------------------------------------------------------------------
(* QuarkIpam: IP reallocation (reclaim before create) *)

Exhausted == "IpAddressGenerationFailure"
TypeError == "TypeError"
NoError == "none"

\* db_api.ip_address_update(elevated, address, deallocated=False,
\*     deallocated_at=None, allocated_at=utcnow())
Reclaimed(r) == [r EXCEPT !.deallocated = FALSE, !.deallocated_at = None]

\* The arguments of a call: a record with tenant, reuse_after, version,
\* ip_address, segment_id, subnets (a set of subnet ids; {} for None)

\* a search that leaves the reuse_after out of its filters
ReuseAfterDropped(a) == None

\* "reuse_after": reuse_after of ip_kwargs
ReuseAfterOf(a) == a.reuse_after

\* a check that takes a row without a subnet for one outside its cidr
CidrCheckStrict(db, address) ==
    IF address.subnet_id \notin DOMAIN db.subnets THEN "outside"
    ELSE IF InCidrAs(address.address, db.subnets[address.subnet_id])
    THEN "inside"
    ELSE "outside"

\* lines 121-125: the row found has no subnet (address.get("subnet") is
\* None), or lies inside or outside the cidr of its subnet
CidrCheck(db, address) ==
    IF address.subnet_id \notin DOMAIN db.subnets THEN "nosubnet"
    ELSE IF InCidrAs(address.address, db.subnets[address.subnet_id])
    THEN "inside"
    ELSE "outside"

\* attempt_to_reallocate_ip: the for loop, `times` iterations to go, with
\* the value `subnets` is bound to and the versions searched
RECURSIVE ReallocLoop(_, _, _, _, _)
ReallocLoop(times, s, a, versions, subnetsVal) ==
    IF times = 0
    THEN [err |-> NoError, s |-> s, res |-> <<>>, deleted |-> 0]
    ELSE
    LET s1 == SessionBegin(s)
        bySegment == ~Truthy(subnetsVal) /\ a.segment_id # NoSegment
        found == SubnetFind(s1.db, a.segment_id)
        subnets2 == IF bySegment THEN SubnetRows(found) ELSE subnetsVal
        sub_ids == IF Truthy(subnetsVal) THEN subnetsVal
                   ELSE IF bySegment THEN SubnetIds(found)
                   ELSE SubnetIds({})
        cands == DeallocatedIps(s1.db, ReuseAfterOf(a), versions,
                                a.ip_address, sub_ids)
        address == FirstByAddress(cands)
    IN  IF bySegment /\ found = {}
        THEN [err |-> Exhausted, s |-> SessionRollback(s1), res |-> <<>>,
              deleted |-> 0]
        ELSE IF cands = {}
        THEN [err |-> NoError, s |-> SessionCommit(s1), res |-> <<>>,
              deleted |-> 0]
        ELSE IF CidrCheck(s1.db, address) = "nosubnet"
        THEN [err |-> NoError, s |-> SessionCommit(s1), res |-> <<>>,
              deleted |-> 0]
        ELSE IF CidrCheck(s1.db, address) = "inside"
        THEN [err |-> NoError,
              s |-> SessionCommit([s1 EXCEPT !.db.ips =
                        (@ \ {address}) \cup {Reclaimed(address)}]),
              res |-> <<address.id>>, deleted |-> 0]
        ELSE LET rest == ReallocLoop(times - 1,
                            SessionCommit([s1 EXCEPT !.db.ips = @ \ {address}]),
                            a, versions, subnets2)
             IN  [rest EXCEPT !.deleted = @ + 1]

\* a loop of four attempts
ReallocBaseFour(s, a, version) ==
    ReallocLoop(4, s, a, IF version = None THEN {4, 6} ELSE {version},
                SubnetIds(a.subnets))

\* QuarkIpam.attempt_to_reallocate_ip(version): version or [4, 6]
ReallocBase(s, a, version) ==
    ReallocLoop(3, s, a, IF version = None THEN {4, 6} ELSE {version},
                SubnetIds(a.subnets))

\* QuarkIpamBOTH.attempt_to_reallocate_ip: one search per version, in one
\* transaction
ReallocBothOutcome(r4, r6) ==
    IF r4.err # NoError
    THEN [r4 EXCEPT !.s = SessionRollback(r4.s)]
    ELSE IF r6.err # NoError
    THEN [r6 EXCEPT !.s = SessionRollback(r6.s)]
    ELSE [err |-> NoError, s |-> SessionCommit(r6.s),
          res |-> r4.res \o r6.res, deleted |-> r4.deleted + r6.deleted]

ReallocBothFrom(a, r4) == ReallocBothOutcome(r4, ReallocBase(r4.s, a, 6))

ReallocBoth(s, a) == ReallocBothFrom(a, ReallocBase(SessionBegin(s), a, 4))

\* strategy.attempt_to_reallocate_ip as allocate_ip_address calls it
\* (version=None)
AttemptToReallocateIp(strategy, s, a) ==
    IF strategy = "ANY" THEN ReallocBase(s, a, None) ELSE ReallocBoth(s, a)

VersionsOf(db, res) == { RowById(db, res[i]).version : i \in DOMAIN res }

\* a test no result passes
IsStrategySatisfiedNever(strategy, db, res) == FALSE

\* the test of BOTH, made under every strategy
IsStrategySatisfiedBoth(strategy, db, res) == {4, 6} \ VersionsOf(db, res) = {}

\* strategy.is_strategy_satisfied(realloc_ips)
IsStrategySatisfied(strategy, db, res) ==
    IF strategy = "ANY" THEN res # <<>>
    ELSE {4, 6} \ VersionsOf(db, res) = {}

-----------------------------------------------------------------------------
(* QuarkIpam: subnet selection and fresh allocation *)

NoSubnet == "nosubnet"          \* select_subnet returning None

\* a capacity test that forgets the exclusions
PolicySizeNone(sub, ip_address) == 0

\* policy_size of select_subnet: the exclusions count when no address is
\* requested
PolicySize(sub, ip_address) ==
    IF ip_address = None THEN Cardinality(PolicyCidrs(sub)) ELSE 0

\* a test that does not look whether the subnet holds the address
SubnetQualifiesAnyCidr(db, id, ip_address) ==
    db.subnets[id].size
        > IpsInSubnet(db, id) + PolicySize(db.subnets[id], ip_address)

\* the test a candidate passes in select_subnet
SubnetQualifies(db, id, ip_address) ==
    LET sub == db.subnets[id]
    IN  /\ (ip_address # None => InCidr(ip_address, sub))
        /\ sub.size > IpsInSubnet(db, id) + PolicySize(sub, ip_address)

\* QuarkIpam.select_subnet
SelectSubnet(db, ip_address, segment_id, subnet_ids, ip_version) ==
    LET cands == SubnetCandidates(db, segment_id, subnet_ids, ip_version)
        good == SelectSeq(cands,
                    LAMBDA id : SubnetQualifies(db, id, ip_address))
    IN  IF good = <<>> THEN NoSubnet ELSE Head(good)

\* QuarkIpamANY._choose_available_subnet
ChooseAny(db, a) ==
    LET subnet == SelectSubnet(db, a.ip_address, a.segment_id, {}, a.version)
    IN  IF subnet # NoSubnet
        THEN [err |-> NoError, subs |-> <<subnet>>]
        ELSE [err |-> Exhausted, subs |-> <<>>]

\* a choice of one subnet per version, whatever was reclaimed
ChooseBothAll(db, a, reallocated_ips) ==
    LET sub(v) == SelectSubnet(db, a.ip_address, a.segment_id, {}, v)
    IN  [err |-> NoError,
         subs |-> SelectSeq(<<sub(4), sub(6)>>, LAMBDA x : x # NoSubnet)]

\* QuarkIpamBOTH._choose_available_subnet
ChooseBoth(db, a, reallocated_ips) ==
    LET have == VersionsOf(db, reallocated_ips)
        need_versions == SelectSeq(<<4, 6>>, LAMBDA v : v \notin have)
        sub(v) == SelectSubnet(db, a.ip_address, a.segment_id, {}, v)
        both_subnet_versions ==
            SelectSeq([i \in DOMAIN need_versions |-> sub(need_versions[i])],
                      LAMBDA x : x # NoSubnet)
    IN  IF reallocated_ips = <<>> /\ both_subnet_versions = <<>>
        THEN [err |-> Exhausted, subs |-> <<>>]
        ELSE [err |-> NoError, subs |-> both_subnet_versions]

\* BOTH_REQUIRED with the test on the count left out
ChooseBothReqLax(db, a, reallocated_ips) == ChooseBoth(db, a, reallocated_ips)

\* QuarkIpamBOTHREQ._choose_available_subnet (a failure carries the subnets
\* the BOTH choice had found)
ChooseBothReq(db, a, reallocated_ips) ==
    LET r == ChooseBoth(db, a, reallocated_ips)
    IN  IF r.err # NoError THEN r
        ELSE IF Len(reallocated_ips) + Len(r.subs) < 2
        THEN [err |-> Exhausted, subs |-> r.subs]
        ELSE r

\* strategy._choose_available_subnet
ChooseAvailableSubnet(strategy, db, a, reallocated_ips) ==
    CASE strategy = "ANY" -> ChooseAny(db, a)
      [] strategy = "BOTH" -> ChooseBoth(db, a, reallocated_ips)
      [] OTHER -> ChooseBothReq(db, a, reallocated_ips)

\* a scan that does not look at the IP policy
RECURSIVE IterateFromAnyIp(_, _, _, _)
IterateFromAnyIp(db, sub, tenant, cur) ==
    IF IpOfTenant(db, cur, tenant) # {}
    THEN IterateFromAnyIp(db, sub, tenant, cur + 1)
    ELSE [ip |-> cur, cursor |-> cur + 1]

\* _iterate_until_available_ip: the while loop from cursor value `cur` on;
\* the address found and the cursor left behind.  The candidate is the
\* address whose integer the cursor holds (IPVersion gives its version).
RECURSIVE IterateFrom(_, _, _, _)
IterateFrom(db, sub, tenant, cur) ==
    LET next_ip == cur
        ip_policy_cidrs == PolicyCidrs(sub)
    IN  IF next_ip \in ip_policy_cidrs
        THEN IterateFrom(db, sub, tenant, cur + 1)
        ELSE IF IpOfTenant(db, next_ip, tenant) # {}
        THEN IterateFrom(db, sub, tenant, cur + 1)
        ELSE [ip |-> next_ip, cursor |-> cur + 1]

\* a draw that leaves the subnet's cursor where it was
IterateCursorKept(db, sub, tenant) ==
    [IterateFrom(db, sub, tenant, sub.next_auto_assign_ip)
        EXCEPT !.cursor = sub.next_auto_assign_ip]

\* QuarkIpam._iterate_until_available_ip
IterateUntilAvailableIp(db, sub, tenant) ==
    IterateFrom(db, sub, tenant, sub.next_auto_assign_ip)

\* _allocate_ips_from_subnets: the for loop over the subnets left
RECURSIVE AllocateIpsFromSubnets(_, _, _, _)
AllocateIpsFromSubnets(db, tenant, subs, ip_address) ==
    IF subs = <<>>
    THEN [err |-> NoError, db |-> db, res |-> <<>>]
    ELSE IF Head(subs) = NoSubnet
    THEN [err |-> TypeError, db |-> db, res |-> <<>>]
    ELSE
    LET sub == db.subnets[Head(subs)]
        drawn == IterateUntilAvailableIp(db, sub, tenant)
        next_ip == IF ip_address # None THEN ip_address ELSE drawn.ip
        cursor == IF ip_address # None THEN sub.next_auto_assign_ip
                  ELSE drawn.cursor
        db2 == [db EXCEPT
                  !.subnets[sub.id].next_auto_assign_ip = cursor,
                  !.ips = @ \cup {NewIp(db, tenant, next_ip, sub)},
                  !.nextId = @ + 1]
        rest == AllocateIpsFromSubnets(db2, tenant, Tail(subs), ip_address)
    IN  IF ip_address # None /\ IpOfTenant(db, ip_address, tenant) # {}
        THEN [err |-> Exhausted, db |-> db, res |-> <<>>]
        ELSE [rest EXCEPT !.res = <<db.nextId>> \o @]

-----------------------------------------------------------------------------
(* QuarkIpam.allocate_ip_address *)

Args(tenant, reuse_after, segment_id, version, ip_address, subnet_ids) ==
    [tenant |-> tenant, reuse_after |-> reuse_after,
     segment_id |-> segment_id, version |-> version,
     ip_address |-> ip_address, subnets |-> subnet_ids]

Outcome(err, s, realloc, created, subs, deleted) ==
    [err |-> err, s |-> s, realloc |-> realloc, created |-> created,
     chosen |-> subs, deleted |-> deleted, selecting |-> TRUE,
     notified |-> IF err = NoError THEN realloc \o created ELSE <<>>]

\* allocate_ip_address, lines 223-227: the subnets allocated from, the
\* strategy's choice or select_subnet over the subnets passed
ChooseSubnets(strategy, db, a, reallocated_ips) ==
    IF a.subnets = {}
    THEN ChooseAvailableSubnet(strategy, db, a, reallocated_ips)
    ELSE [err |-> NoError,
          subs |-> <<SelectSubnet(db, a.ip_address, a.segment_id, a.subnets,
                                  None)>>]

\* how the transaction of the second half ends, given the choice `ch` and
\* the allocation `al` made in session s1
FreshOutcome(s1, re, ch, al) ==
    IF ch.err # NoError
    THEN Outcome(ch.err, SessionRollback(s1), re.res, <<>>, ch.subs,
                 re.deleted)
    ELSE IF al.err # NoError
    THEN Outcome(al.err, SessionRollback(s1), re.res, <<>>, ch.subs,
                 re.deleted)
    ELSE Outcome(NoError, SessionCommit([s1 EXCEPT !.db = al.db]),
                 re.res, al.res, ch.subs, re.deleted)

AllocateChosen(s1, a, re, ch) ==
    FreshOutcome(s1, re, ch,
        AllocateIpsFromSubnets(s1.db, a.tenant, ch.subs, a.ip_address))

\* the second half of allocate_ip_address: choose the subnets and allocate
\* from them, in one transaction
AllocateFresh(strategy, s, a, re) ==
    AllocateChosen(SessionBegin(s), a, re,
        ChooseSubnets(strategy, SessionBegin(s).db, a, re.res))

\* allocate_ip_address after the reallocation attempt `re`; `selecting`
\* tells whether the call went on to choose subnets (lines 221-233)
AfterRealloc(strategy, a, re) ==
    IF re.err # NoError
    THEN [Outcome(re.err, re.s, <<>>, <<>>, <<>>, re.deleted)
             EXCEPT !.selecting = FALSE]
    ELSE IF IsStrategySatisfied(strategy, re.s.db, re.res)
    THEN [Outcome(NoError, re.s, re.res, <<>>, <<>>, re.deleted)
             EXCEPT !.notified = <<>>, !.selecting = FALSE]
    ELSE AllocateFresh(strategy, re.s, a, re)

AllocateIpAddress(strategy, s, a) ==
    AfterRealloc(strategy, a, AttemptToReallocateIp(strategy, s, a))

\* how a port handler's with-block is left after the call
HandlerExit(r) ==
    [r EXCEPT !.s = IF r.err = NoError THEN SessionCommit(r.s)
                    ELSE SessionRollback(r.s)]

\* A port handler's call of allocate_ip_address: inside the handler's own
\* transaction (with context.session.begin()), which an exception leaves
\* rolled back
HandlerAllocateIp(strategy, db, a) ==
    HandlerExit(AllocateIpAddress(strategy, SessionBegin(Session(db)), a))

ToSet(seq) == { seq[i] : i \in DOMAIN seq }

-----------------------------------------------------------------------------
(* QuarkIpam.deallocate_ip_address *)

PortsOf(pi, id) == { q \in Ports : id \in pi[q] }

\* the rows the loop passes: the port's, or the one of them with the address
Released(p, ip) ==
    { r \in ips : r.id \in portIps[p] /\ (ip # None => r.address = ip) }

\* _deallocate_ip_address: address["deallocated"] = 1 (the store stamps
\* deallocated_at)
Deallocated(r) == [r EXCEPT !.deallocated = TRUE, !.deallocated_at = now]

\* a release that deallocates whatever the port lets go
AfterReleaseAll(p, ip) ==
    { IF r \in Released(p, ip) THEN Deallocated(r) ELSE r : r \in ips }

\* the rows after the loop: a released row is deallocated when the port is
\* the only one mapped to it
AfterRelease(p, ip) ==
    { IF r \in Released(p, ip) /\ Cardinality(PortsOf(portIps, r.id)) = 1
      THEN Deallocated(r) ELSE r : r \in ips }

-----------------------------------------------------------------------------
(* The calls the port handlers make *)

Seg == "segA"                   \* the segment the subnets are in
OtherSeg == "segB"              \* a segment with no subnets

\* The record of a call: the strategy, the address asked for and the
\* reuse_after it was given, and what it returned
NoCall == [op |-> "none", strategy |-> "ANY", ip_address |-> None,
           reuse_after |-> None, err |-> NoError, realloc |-> <<>>,
           created |-> <<>>, chosen |-> <<>>, deleted |-> 0,
           notified |-> <<>>, selecting |-> FALSE]

\* the addresses a caller asks for by name
ReqIps == {Net4 + 2}

\* create_port and post_update_port: the network's strategy, the configured
\* reuse_after, an address or none, no subnet ids
CreatePortCalls ==
    { <<netStrategy, Args(t, ReuseAfter, sg, None, ip, {})>> :
        t \in LifeTenants, sg \in {NoSegment, Seg, OtherSeg},
        ip \in {None} \cup ReqIps }

\* update_port: strategy ANY; an address the port does not have, in a subnet,
\* with no reuse_after, or any address of a subnet with the configured one
UpdatePortCalls(p) ==
    { <<"ANY", Args(t, None, NoSegment, None, ip, {sid})>> :
        t \in LifeTenants, sid \in DOMAIN subnets,
        ip \in ReqIps \ { r.address : r \in { q \in ips : q.id \in portIps[p] } } }
    \cup
    { <<"ANY", Args(t, ReuseAfter, NoSegment, None, None, {sid})>> :
        t \in LifeTenants, sid \in DOMAIN subnets }

\* allocate_ip_address called by a handler for port p; the handler maps the
\* addresses returned to the port
AllocateIpCall(call, p) ==
    \E r \in {HandlerAllocateIp(call[1], Db(subnets, ips, nextId), call[2])} :
        /\ subnets' = r.s.db.subnets
        /\ ips' = r.s.db.ips
        /\ nextId' = r.s.db.nextId
        /\ portIps' = IF r.err = NoError
                      THEN [portIps EXCEPT
                              ![p] = @ \cup ToSet(r.realloc \o r.created)]
                      ELSE portIps
        /\ last' = [op |-> "AllocateIp", strategy |-> call[1],
                    ip_address |-> call[2].ip_address,
                    reuse_after |-> call[2].reuse_after, err |-> r.err,
                    realloc |-> r.realloc, created |-> r.created,
                    chosen |-> r.chosen, deleted |-> r.deleted,
                    notified |-> r.notified, selecting |-> r.selecting]

AllocateIp ==
    /\ \E p \in LifePorts :
           \E call \in CreatePortCalls \cup UpdatePortCalls(p) :
               AllocateIpCall(call, p)
    /\ nextId' <= MaxRows + 1
    /\ UNCHANGED <<now, netStrategy, hist, macVars, procVars>>

\* deallocate_ip_address(port) of delete_port, and
\* deallocate_ip_address(port, ip_address=ip) of update_port
DeallocateIp ==
    /\ \E p \in Ports, ip \in {None} \cup { r.address : r \in ips } :
           /\ Released(p, ip) # {}
           /\ ips' = AfterRelease(p, ip)
           /\ portIps' = [portIps EXCEPT
                            ![p] = @ \ { r.id : r \in Released(p, ip) }]
           /\ last' = [NoCall EXCEPT !.op = "DeallocateIp",
                                     !.ip_address = ip]
    /\ UNCHANGED <<subnets, nextId, now, netStrategy, hist, macVars,
                   procVars>>

\* time passes (the clock is read to stamp a deallocation and to age the
\* deallocated rows: it is let run once there is one)
Tick ==
    /\ now < MaxTime
    /\ \E r \in ips : r.deallocated
    /\ now' = now + 1
    /\ UNCHANGED <<subnets, ips, nextId, portIps, netStrategy, last, hist,
                   macVars, procVars>>

-----------------------------------------------------------------------------
(* The life-cycle model: allocation, deallocation and reclamation over a  *)
(* network of small subnets                                                *)

LifeSubnet4 == MkSubnet("s1", Seg, 4, Net4, 4,
                        {Range(Net4, Net4), Range(Net4 + 3, Net4 + 3)},
                        Net4 + 1)
LifeSubnet6 == MkSubnet("s6", Seg, 6, Net6, 2, {}, Net6 + 1)

LifeTopologies ==
    { [id \in {"s1"} |-> LifeSubnet4],
      [id \in {"s6"} |-> LifeSubnet6],
      [id \in {"s1", "s6"} |-> IF id = "s1" THEN LifeSubnet4
                                ELSE LifeSubnet6] }

NoHist == [drawn |-> <<>>, calls |-> 0]

IdleProcs ==
    /\ pc = <<>>
    /\ held = <<>>
    /\ loc = <<>>

NoMacs ==
    /\ ranges = <<>>
    /\ macs = {}

Init ==
    /\ subnets \in LifeTopologies
    /\ ips = {}
    /\ nextId = 1
    /\ portIps = [p \in Ports |-> {}]
    /\ now = 0
    /\ netStrategy \in Strategies
    /\ last = NoCall
    /\ hist = NoHist
    /\ NoMacs
    /\ IdleProcs

Next ==
    \/ AllocateIp
    \/ DeallocateIp
    \/ Tick

Spec == Init /\ [][Next]_vars

-----------------------------------------------------------------------------
(* The fresh-draw model: callers of two tenants draw addresses from a /29  *)
(* (and a /30 beside it) under an IP policy; nothing is deallocated        *)

FreshPolicies ==
    { {},
      {Range(Net4, Net4), Range(Net4 + 7, Net4 + 7)},
      {Range(Net4 + 2, Net4 + 4)},
      {Range(Net4 + 1, Net4 + 3), Range(Net4 + 3, Net4 + 5)},
      {Range(Net4, Net4 + 7)} }

FreshSubnet1(policy) == MkSubnet("s1", Seg, 4, Net4, 8, policy, Net4 + 1)
FreshSubnet2 == MkSubnet("s2", Seg, 4, Net4 + 8, 4,
                         {Range(Net4 + 8, Net4 + 9)}, Net4 + 9)

FreshTopologies ==
    { [id \in {"s1"} |-> FreshSubnet1(pol)] : pol \in FreshPolicies }
    \cup
    { [id \in {"s1", "s2"} |-> IF id = "s1" THEN FreshSubnet1(pol)
                                ELSE FreshSubnet2] : pol \in FreshPolicies }

InitFresh ==
    /\ subnets \in FreshTopologies
    /\ ips = {}
    /\ nextId = 1
    /\ portIps = [p \in Ports |-> {}]
    /\ now = 0
    /\ netStrategy \in {"ANY", "BOTH"}
    /\ last = NoCall
    /\ hist = NoHist
    /\ NoMacs
    /\ IdleProcs

\* create_port without fixed_ips: allocate_ip_address with no address asked
\* for, by a caller of either tenant
FreshAllocateIp ==
    /\ hist.calls < MaxCalls
    /\ \E t \in Tenants, p \in LifePorts :
           AllocateIpCall(<<netStrategy,
               Args(t, ReuseAfter, NoSegment, None, None, {})>>, p)
    /\ hist' = [calls |-> hist.calls + 1,
                drawn |-> hist.drawn \o
                    [i \in DOMAIN last'.created |->
                        LET r == CHOOSE r \in ips' : r.id = last'.created[i]
                        IN  <<r.subnet_id, r.address>>]]
    /\ UNCHANGED <<now, netStrategy, macVars, procVars>>

NextFresh == FreshAllocateIp

SpecFresh == InitFresh /\ [][NextFresh]_vars

-----------------------------------------------------------------------------
(* The self-healing model: the store holds deallocated, aged-out rows,     *)
(* some of them outside the cidr of the subnet they record (the subnet was *)
(* resized, or the cursor ran past its end), and the handlers allocate.    *)

MaxHealCalls == 2

\* a deallocated row of the store
SeedIp(id, address, sid, ver) ==
    [id |-> id, address |-> address, subnet_id |-> sid, network_id |-> NetId,
     version |-> ver, used_by_tenant_id |-> "t1", deallocated |-> TRUE,
     deallocated_at |-> 0]

\* three rows below the subnet's cidr, one inside it, two above it, and an
\* IPv6 row above its subnet's cidr
SeedPool ==
    { SeedIp(1, Net4 - 3, "s1", 4), SeedIp(2, Net4 - 2, "s1", 4),
      SeedIp(3, Net4 - 1, "s1", 4), SeedIp(4, Net4 + 1, "s1", 4),
      SeedIp(5, Net4 + 4, "s1", 4), SeedIp(6, Net4 + 5, "s1", 4),
      SeedIp(7, Net6 + 2, "s6", 6) }

HealHist == [calls |-> 0, args |-> Args("none", None, NoSegment, None, None, {}),
             strategy |-> "none", before |-> {}]

InitHeal ==
    /\ subnets = [id \in {"s1", "s6"} |->
                     IF id = "s1" THEN LifeSubnet4 ELSE LifeSubnet6]
    /\ ips \in SUBSET SeedPool
    /\ nextId = 8
    /\ portIps = [p \in Ports |-> {}]
    /\ now = ReuseAfter
    /\ netStrategy \in {"ANY", "BOTH"}
    /\ last = NoCall
    /\ hist = HealHist
    /\ NoMacs
    /\ IdleProcs

\* create_port on the network, with or without a segment, update_port
\* naming a subnet, and allocate_ip_address(version=v) under ANY: no address
\* asked for
HealCalls ==
    { <<netStrategy, Args(t, ReuseAfter, sg, None, None, {})>> :
        t \in LifeTenants, sg \in {NoSegment, Seg, OtherSeg} }
    \cup
    { <<"ANY", Args(t, ReuseAfter, NoSegment, None, None, {"s1"})>> :
        t \in LifeTenants }
    \cup
    { <<"ANY", Args(t, ReuseAfter, NoSegment, v, None, {})>> :
        t \in LifeTenants, v \in {4, 6} }

HealAllocateIp ==
    /\ hist.calls < MaxHealCalls
    /\ \E p \in LifePorts : \E call \in HealCalls :
           /\ AllocateIpCall(call, p)
           /\ hist' = [calls |-> hist.calls + 1, args |-> call[2],
                       strategy |-> call[1], before |-> ips]
    /\ UNCHANGED <<now, netStrategy, macVars, procVars>>

NextHeal == HealAllocateIp

SpecHeal == InitHeal /\ [][NextHeal]_vars

-----------------------------------------------------------------------------
(* The orphan model: as the self-healing model, with deallocated rows      *)
(* whose subnet is no longer in the store.                                 *)

NoSubnetId == "gone"            \* the subnet_id of a row without a subnet

\* a row outside its cidr, two rows without a subnet, two rows inside their
\* cidr, and an IPv6 row without a subnet
OrphanPool ==
    { SeedIp(1, Net4 - 1, "s1", 4), SeedIp(2, Net4 + 1, NoSubnetId, 4),
      SeedIp(3, Net4 + 2, "s1", 4), SeedIp(4, Net4 + 5, NoSubnetId, 4),
      SeedIp(5, Net6 + 1, "s6", 6), SeedIp(6, Net6 + 3, NoSubnetId, 6) }

InitOrphan ==
    /\ subnets = [id \in {"s1", "s6"} |->
                     IF id = "s1" THEN LifeSubnet4 ELSE LifeSubnet6]
    /\ ips \in SUBSET OrphanPool
    /\ nextId = 8
    /\ portIps = [p \in Ports |-> {}]
    /\ now = ReuseAfter
    /\ netStrategy \in {"ANY", "BOTH"}
    /\ last = NoCall
    /\ hist = HealHist
    /\ NoMacs
    /\ IdleProcs

SpecOrphan == InitOrphan /\ [][NextHeal]_vars

-----------------------------------------------------------------------------
(* The sharing model: two ports of one tenant; an address allocated for    *)
(* one port is associated with the other, and the ports release it.        *)

\* post_update_port with fixed_ips [{"ip_id": id}] (lines 223-266): the row
\* of the caller's tenant is found, its deallocated flag is set to 0 and it
\* is appended to the port's addresses unless it is there
AssociateIp ==
    /\ \E p \in Ports, r \in ips :
           /\ r.used_by_tenant_id \in LifeTenants
           /\ ips' = (ips \ {r}) \cup {[r EXCEPT !.deallocated = FALSE]}
           /\ portIps' = [portIps EXCEPT ![p] = @ \cup {r.id}]
           /\ last' = [NoCall EXCEPT !.op = "AssociateIp",
                                     !.ip_address = r.address]
    /\ UNCHANGED <<subnets, nextId, now, netStrategy, hist, macVars,
                   procVars>>

\* create_port without fixed_ips, for either port
ShareAllocateIp ==
    /\ \E p \in Ports, t \in LifeTenants :
           AllocateIpCall(<<netStrategy,
               Args(t, ReuseAfter, NoSegment, None, None, {})>>, p)
    /\ nextId' <= MaxRows + 1
    /\ UNCHANGED <<now, netStrategy, hist, macVars, procVars>>

InitShare ==
    /\ subnets = [id \in {"s1"} |-> LifeSubnet4]
    /\ ips = {}
    /\ nextId = 1
    /\ portIps = [p \in Ports |-> {}]
    /\ now = 0
    /\ netStrategy \in {"ANY", "BOTH"}
    /\ last = NoCall
    /\ hist = NoHist
    /\ NoMacs
    /\ IdleProcs

NextShare ==
    \/ ShareAllocateIp
    \/ AssociateIp
    \/ DeallocateIp
    \/ Tick

SpecShare == InitShare /\ [][NextShare]_vars

-----------------------------------------------------------------------------
(* The shared-network model: the ports of two tenants are on one network;  *)
(* each tenant's create_port asks for an address by name or lets one be    *)
(* drawn, and the ports release their addresses.                           *)

\* create_port by a caller of either tenant, with or without fixed_ips
TenantAllocateIp ==
    /\ \E p \in LifePorts, t \in Tenants, ip \in {None} \cup ReqIps :
           AllocateIpCall(<<netStrategy,
               Args(t, ReuseAfter, NoSegment, None, ip, {})>>, p)
    /\ nextId' <= MaxRows + 1
    /\ UNCHANGED <<now, netStrategy, hist, macVars, procVars>>

NextTenants ==
    \/ TenantAllocateIp
    \/ DeallocateIp
    \/ Tick

SpecTenants == InitShare /\ [][NextTenants]_vars

-----------------------------------------------------------------------------
(* The registry model: handlers resolve strategy names, under a configured *)
(* default that is any string                                               *)

MaxRegistryCalls == 2

KeyError == "KeyError"

\* the names a network's ipam_strategy, and the configured
\* default_ipam_strategy, may hold
StrategyNames == Strategies \cup {"NONE_SUCH", "any"}

\* IpamRegistry.is_valid_strategy
IsValidStrategy(strategy_name) == strategy_name \in Strategies

\* IpamRegistry.get_strategy: the name of the strategy returned;
\* self.strategies[fallback] raises KeyError for a key that is not there
GetStrategy(strategy_name, fallback) ==
    IF IsValidStrategy(strategy_name)
    THEN [err |-> NoError, strategy |-> strategy_name]
    ELSE IF fallback \in Strategies
    THEN [err |-> NoError, strategy |-> fallback]
    ELSE [err |-> KeyError, strategy |-> "none"]

\* the configured default (conf) and the names asked for so far
InitRegistry ==
    /\ subnets = <<>>
    /\ ips = {}
    /\ nextId = 1
    /\ portIps = [p \in Ports |-> {}]
    /\ now = 0
    /\ netStrategy \in StrategyNames
    /\ last = NoCall
    /\ hist \in { [conf |-> d, calls |-> 0, names |-> <<>>] :
                     d \in StrategyNames }
    /\ NoMacs
    /\ IdleProcs

\* ipam.IPAM_REGISTRY.get_strategy(net["ipam_strategy"]) of a handler, for
\* a network of any strategy name
RegistryGetStrategy ==
    /\ hist.calls < MaxRegistryCalls
    /\ \E name \in StrategyNames :
         \E r \in {GetStrategy(name, hist.conf)} :
           /\ netStrategy' = name
           /\ last' = [NoCall EXCEPT !.op = "GetStrategy",
                                     !.strategy = r.strategy, !.err = r.err]
           /\ hist' = [hist EXCEPT !.calls = @ + 1,
                                   !.names = Append(@, name)]
    /\ UNCHANGED <<subnets, ips, nextId, portIps, now, macVars, procVars>>

NextRegistry == RegistryGetStrategy

SpecRegistry == InitRegistry /\ [][NextRegistry]_vars

-----------------------------------------------------------------------------
(* The concurrent draw model: callers run allocate_ip_address at the same   *)
(* time, each in the transaction of its handler.  A call takes three steps: *)
(* the locking read of the subnets and their counts, the draw from the      *)
(* Subnet object it loaded, and the commit that publishes its writes and    *)
(* releases its locks.  Nothing is deallocated, so the reallocation attempt *)
(* that opens a call finds no row.                                          *)

NumCallers == 2
MaxConcCalls == 5

Callers == 1 .. NumCallers
NoOne == 0

ConcSubnet == MkSubnet("s1", Seg, 4, Net4, 4,
                       {Range(Net4, Net4), Range(Net4 + 3, Net4 + 3)},
                       Net4 + 1)

ConcHist == [drawn |-> <<>>, calls |-> 0, reads |-> <<>>]

NoLoc == [tenant |-> "none", subs |-> <<>>, objs |-> <<>>, rows |-> {},
          cursors |-> <<>>]

\* the rows the locking read of the subnets returns, which it locks
LockedBySelect(db, a) ==
    ToSet(SubnetCandidates(db, a.segment_id, a.subnets, None))

\* with_lockmode("update"): the read waits while another transaction holds
\* one of the rows
LockFree(h, c, rows) == \A id \in rows : h[id] \in {NoOne, c}

\* a transaction that ends with the read, and so keeps no lock
KeepLocksNone(h, c, rows) == h

\* the with-block of allocate_ip_address stays open after the subnets are
\* chosen: the rows read stay locked by caller c
KeepLocks(h, c, rows) == [id \in DOMAIN h |-> IF id \in rows THEN c ELSE h[id]]

\* the commit (or rollback) of caller c's transaction releases its locks
ReleaseLocks(h, c) == [id \in DOMAIN h |-> IF h[id] = c THEN NoOne ELSE h[id]]

\* the store as caller c sees it: the Subnet objects it loaded, the rows
\* committed
ViewOf(c) ==
    Db([id \in DOMAIN subnets |->
           IF id \in DOMAIN loc[c].objs THEN loc[c].objs[id] ELSE subnets[id]],
       ips, nextId)

InitConcIp ==
    /\ subnets = [id \in {"s1", "s2"} |->
                     IF id = "s1" THEN ConcSubnet ELSE FreshSubnet2]
    /\ ips = {}
    /\ nextId = 1
    /\ portIps = [p \in Ports |-> {}]
    /\ now = 0
    /\ netStrategy \in {"ANY", "BOTH"}
    /\ last = NoCall
    /\ hist = ConcHist
    /\ NoMacs
    /\ pc = [c \in Callers |-> "idle"]
    /\ held = [id \in {"s1", "s2"} |-> NoOne]
    /\ loc = [c \in Callers |-> NoLoc]

\* allocate_ip_address up to the choice of the subnets (lines 212-229): the
\* call fails when none is chosen, and else goes on holding the rows read
ConcIpSelectBy(c, t) ==
    \E a \in {Args(t, ReuseAfter, NoSegment, None, None, {})} :
    \E re \in {AttemptToReallocateIp(netStrategy,
                    SessionBegin(Session(Db(subnets, ips, nextId))), a)} :
    \E ch \in {ChooseSubnets(netStrategy, re.s.db, a, re.res)} :
        /\ re.err = NoError /\ re.res = <<>>
        /\ LockFree(held, c, LockedBySelect(re.s.db, a))
        /\ IF ch.err # NoError
           THEN /\ last' = [NoCall EXCEPT !.op = "AllocateIp",
                                !.strategy = netStrategy,
                                !.reuse_after = ReuseAfter, !.err = ch.err]
                /\ hist' = [hist EXCEPT !.calls = @ + 1]
                /\ UNCHANGED <<pc, held, loc>>
           ELSE /\ pc' = [pc EXCEPT ![c] = "selected"]
                /\ held' = KeepLocks(held, c, LockedBySelect(re.s.db, a))
                /\ loc' = [loc EXCEPT ![c] =
                              [NoLoc EXCEPT !.tenant = t, !.subs = ch.subs,
                                  !.objs = [id \in ToSet(ch.subs) |->
                                               subnets[id]]]]
                /\ UNCHANGED <<last, hist>>

ConcIpSelect ==
    /\ hist.calls < MaxConcCalls
    /\ \E c \in Callers, t \in Tenants :
           pc[c] = "idle" /\ ConcIpSelectBy(c, t)
    /\ UNCHANGED <<subnets, ips, nextId, portIps, now, netStrategy, macVars>>

\* _allocate_ips_from_subnets (lines 231-232) on the objects the caller
\* loaded: the rows and cursors are written in its transaction
ConcIpDrawBy(c) ==
    \E al \in {AllocateIpsFromSubnets(ViewOf(c), loc[c].tenant, loc[c].subs,
                                       None)} :
        /\ al.err = NoError
        /\ nextId' = al.db.nextId
        /\ loc' = [loc EXCEPT ![c].rows = al.db.ips \ ips,
                              ![c].cursors =
                                  [id \in ToSet(loc[c].subs) |->
                                      al.db.subnets[id].next_auto_assign_ip]]
        /\ hist' = [hist EXCEPT !.reads = @ \o
                       [i \in DOMAIN loc[c].subs |->
                           <<loc[c].subs[i],
                             loc[c].objs[loc[c].subs[i]].next_auto_assign_ip,
                             al.db.subnets[loc[c].subs[i]].next_auto_assign_ip>>]]
        /\ pc' = [pc EXCEPT ![c] = "drawn"]

ConcIpDraw ==
    /\ \E c \in Callers : pc[c] = "selected" /\ ConcIpDrawBy(c)
    /\ UNCHANGED <<subnets, ips, portIps, now, netStrategy, last, held,
                   macVars>>

\* the handler's transaction commits: the rows and the cursors are
\* published and the locks released
ConcIpCommitBy(c) ==
    /\ ips' = ips \cup loc[c].rows
    /\ subnets' = [id \in DOMAIN subnets |->
                      IF id \in DOMAIN loc[c].cursors
                      THEN [subnets[id] EXCEPT
                              !.next_auto_assign_ip = loc[c].cursors[id]]
                      ELSE subnets[id]]
    /\ held' = ReleaseLocks(held, c)
    /\ pc' = [pc EXCEPT ![c] = "idle"]
    /\ loc' = [loc EXCEPT ![c] = NoLoc]
    /\ hist' = [hist EXCEPT !.calls = @ + 1,
                            !.drawn = @ \o
                                [i \in DOMAIN loc[c].subs |->
                                    <<loc[c].subs[i],
                                      (CHOOSE r \in loc[c].rows :
                                         r.subnet_id = loc[c].subs[i]).address>>]]
    /\ last' = [NoCall EXCEPT !.op = "AllocateIp", !.strategy = netStrategy,
                              !.reuse_after = ReuseAfter,
                              !.chosen = loc[c].subs]

ConcIpCommit ==
    /\ \E c \in Callers : pc[c] = "drawn" /\ ConcIpCommitBy(c)
    /\ UNCHANGED <<nextId, portIps, now, netStrategy, macVars>>

NextConcIp ==
    \/ ConcIpSelect
    \/ ConcIpDraw
    \/ ConcIpCommit

SpecConcIp == InitConcIp /\ [][NextConcIp]_vars

-----------------------------------------------------------------------------
(* QuarkIpam.allocate_mac_address *)

MacDb(r, m) == [ranges |-> r, macs |-> m]

\* A MacAddressRange row and a MacAddress row
MkRange(id, lo, hi, cursor) ==
    [id |-> id, first_address |-> lo, last_address |-> hi,
     next_auto_assign_mac |-> cursor]

MkMac(address, range_id, tenant, deallocated, at) ==
    [address |-> address, mac_address_range_id |-> range_id,
     tenant_id |-> tenant, deallocated |-> deallocated, deallocated_at |-> at]

\* a lookup that takes no lock
LockModeOff == FALSE

\* lock_mode=True of the recycle lookup
LockMode == TRUE

\* db_api.mac_address_find(context, lock_mode=True, reuse_after, scope=ONE,
\*     address): the rows one of which it returns
DeallocatedMacs(db, reuse_after, address) ==
    { m \in db.macs :
        /\ m.deallocated
        /\ AgedOut(m, reuse_after)
        /\ (address # None => m.address = address) }

\* a timestamp kept where the update clears it
MacRecycledStamped(m) == [m EXCEPT !.deallocated = FALSE]

\* db_api.mac_address_update(context, mac, deallocated=False,
\*     deallocated_at=None)
MacRecycled(m) == [m EXCEPT !.deallocated = FALSE, !.deallocated_at = None]

\* the occupied count mac_address_range_find_allocation_counts pairs a range
\* with
MacsInRange(db, id) ==
    Cardinality({ m \in db.macs :
                    m.mac_address_range_id = id /\ ~m.deallocated })

RangeOrder == <<"r1", "r2">>

\* db_api.mac_address_range_find_allocation_counts(context, address): the
\* ids, in order
RangeCandidates(db, address) ==
    SelectSeq(RangeOrder, LAMBDA id :
        /\ id \in DOMAIN db.ranges
        /\ (address # None =>
               /\ db.ranges[id].first_address <= address
               /\ address <= db.ranges[id].last_address))

\* a test that lets a range take one address more
RangeHasRoomOneMore(db, id) ==
    ~(db.ranges[id].last_address - db.ranges[id].first_address
          < MacsInRange(db, id))

\* not (last - first <= addr_count)
RangeHasRoom(db, id) ==
    ~(db.ranges[id].last_address - db.ranges[id].first_address
          <= MacsInRange(db, id))

NoRange == "norange"

\* the range the for loop allocates from
FirstRangeWithRoom(db, address) ==
    IF SelectSeq(RangeCandidates(db, address),
                 LAMBDA id : RangeHasRoom(db, id)) = <<>>
    THEN NoRange
    ELSE Head(SelectSeq(RangeCandidates(db, address),
                        LAMBDA id : RangeHasRoom(db, id)))

\* db_api.mac_address_find(context, tenant_id=context.tenant_id, scope=ONE,
\*     address=next_address)
MacOfTenant(db, address, tenant) ==
    { m \in db.macs : m.address = address /\ m.tenant_id = tenant }

\* the while loop of the draw, from cursor value cur on: the address found
\* and the cursor left behind
RECURSIVE MacIterateFrom(_, _, _)
MacIterateFrom(db, tenant, cur) ==
    IF MacOfTenant(db, cur, tenant) # {}
    THEN MacIterateFrom(db, tenant, cur + 1)
    ELSE [address |-> cur, cursor |-> cur + 1]

\* db_api.mac_address_create(context, address, mac_address_range_id)
NewMac(tenant, address, range_id) == MkMac(address, range_id, tenant, FALSE, None)

-----------------------------------------------------------------------------
(* The concurrent MAC model: callers run allocate_mac_address at the same   *)
(* time, each in the transaction of its handler.  A call looks for a        *)
(* deallocated row to recycle; when it finds one it updates it and          *)
(* commits; else it reads the ranges and their counts, draws from the       *)
(* range object it loaded, and commits.                                     *)

ConcRange == MkRange("r1", 16, 20, 18)

\* rows drawn from the range earlier and deallocated since: two old enough
\* to recycle, or one of them too young
ConcMacs ==
    { { MkMac(16, "r1", "t1", TRUE, 0), MkMac(17, "r1", "t2", TRUE, at) } :
        at \in {0, ReuseAfter} }

ConcMacHist == [recycled |-> <<>>, drawn |-> <<>>, reads |-> <<>>,
                calls |-> 0]

NoMacLoc == [tenant |-> "none", mac |-> None, range |-> NoRange,
             row |-> None, cursor |-> None]

InitConcMac ==
    /\ subnets = <<>>
    /\ ips = {}
    /\ nextId = 1
    /\ portIps = [p \in Ports |-> {}]
    /\ now = ReuseAfter
    /\ netStrategy = "ANY"
    /\ last = NoCall
    /\ hist = ConcMacHist
    /\ ranges = [id \in {"r1"} |-> ConcRange]
    /\ macs \in ConcMacs
    /\ pc = [c \in Callers |-> "idle"]
    /\ held = [macs |-> [a \in 16 .. 20 |-> NoOne],
               ranges |-> [id \in {"r1"} |-> NoOne]]
    /\ loc = [c \in Callers |-> NoMacLoc]

\* the recycle lookup (lines 43-46): with lock_mode it waits for a row
\* another transaction holds, and holds the row it returns
ConcMacFindBy(c, t) ==
    IF DeallocatedMacs(MacDb(ranges, macs), ReuseAfter, None) = {}
    THEN /\ pc' = [pc EXCEPT ![c] = "scan"]
         /\ loc' = [loc EXCEPT ![c] = [NoMacLoc EXCEPT !.tenant = t]]
         /\ UNCHANGED held
    ELSE \E m \in DeallocatedMacs(MacDb(ranges, macs), ReuseAfter, None) :
            /\ LockMode => LockFree(held.macs, c, {m.address})
            /\ pc' = [pc EXCEPT ![c] = "recycle"]
            /\ loc' = [loc EXCEPT ![c] =
                          [NoMacLoc EXCEPT !.tenant = t, !.mac = m]]
            /\ held' = IF LockMode
                       THEN [held EXCEPT !.macs[m.address] = c]
                       ELSE held

ConcMacFind ==
    /\ hist.calls < MaxConcCalls
    /\ \E c \in Callers, t \in Tenants :
           pc[c] = "idle" /\ ConcMacFindBy(c, t)
    /\ UNCHANGED <<ipVars, macVars>>

\* the update of the row found (lines 47-50), published with the commit of
\* the handler's transaction
ConcMacRecycleBy(c) ==
    /\ macs' = { IF m.address = loc[c].mac.address THEN MacRecycled(m) ELSE m :
                   m \in macs }
    /\ held' = [held EXCEPT !.macs = ReleaseLocks(held.macs, c)]
    /\ pc' = [pc EXCEPT ![c] = "idle"]
    /\ loc' = [loc EXCEPT ![c] = NoMacLoc]
    /\ hist' = [hist EXCEPT !.calls = @ + 1,
                            !.recycled = Append(@, loc[c].mac.address)]

ConcMacRecycle ==
    /\ \E c \in Callers : pc[c] = "recycle" /\ ConcMacRecycleBy(c)
    /\ UNCHANGED <<subnets, ips, nextId, portIps, now, netStrategy, last,
                   ranges>>

\* the locking read of the ranges and their counts (lines 52-60): the call
\* fails when every range is full (line 78)
ConcMacSelectBy(c) ==
    /\ LockFree(held.ranges, c,
                ToSet(RangeCandidates(MacDb(ranges, macs), None)))
    /\ IF FirstRangeWithRoom(MacDb(ranges, macs), None) = NoRange
       THEN /\ pc' = [pc EXCEPT ![c] = "idle"]
            /\ loc' = [loc EXCEPT ![c] = NoMacLoc]
            /\ hist' = [hist EXCEPT !.calls = @ + 1]
            /\ UNCHANGED held
       ELSE /\ pc' = [pc EXCEPT ![c] = "selected"]
            /\ loc' = [loc EXCEPT ![c].range =
                          ranges[FirstRangeWithRoom(MacDb(ranges, macs), None)]]
            /\ held' = [held EXCEPT !.ranges =
                          KeepLocks(@, c,
                              ToSet(RangeCandidates(MacDb(ranges, macs), None)))]
            /\ UNCHANGED hist

ConcMacSelect ==
    /\ \E c \in Callers : pc[c] = "scan" /\ ConcMacSelectBy(c)
    /\ UNCHANGED <<subnets, ips, nextId, portIps, now, netStrategy, last,
                   macVars>>

\* the draw from the range object loaded and the row created (lines 61-76)
ConcMacDrawBy(c) ==
    \E d \in {MacIterateFrom(MacDb(ranges, macs), loc[c].tenant,
                              loc[c].range.next_auto_assign_mac)} :
        /\ loc' = [loc EXCEPT
                      ![c].row = NewMac(loc[c].tenant, d.address,
                                        loc[c].range.id),
                      ![c].cursor = d.cursor]
        /\ hist' = [hist EXCEPT !.reads =
                       Append(@, <<loc[c].range.id,
                                   loc[c].range.next_auto_assign_mac,
                                   d.cursor>>)]
        /\ pc' = [pc EXCEPT ![c] = "drawn"]

ConcMacDraw ==
    /\ \E c \in Callers : pc[c] = "selected" /\ ConcMacDrawBy(c)
    /\ UNCHANGED <<subnets, ips, nextId, portIps, now, netStrategy, last,
                   macVars, held>>

\* the handler's transaction commits: the row and the cursor are published
\* and the locks released
ConcMacCommitBy(c) ==
    /\ macs' = macs \cup {loc[c].row}
    /\ ranges' = [ranges EXCEPT ![loc[c].range.id].next_auto_assign_mac =
                                     loc[c].cursor]
    /\ held' = [held EXCEPT !.ranges = ReleaseLocks(held.ranges, c)]
    /\ pc' = [pc EXCEPT ![c] = "idle"]
    /\ loc' = [loc EXCEPT ![c] = NoMacLoc]
    /\ hist' = [hist EXCEPT !.calls = @ + 1,
                            !.drawn = Append(@, <<loc[c].range.id,
                                                  loc[c].row.address>>)]

ConcMacCommit ==
    /\ \E c \in Callers : pc[c] = "drawn" /\ ConcMacCommitBy(c)
    /\ UNCHANGED <<subnets, ips, nextId, portIps, now, netStrategy, last>>

NextConcMac ==
    \/ ConcMacFind
    \/ ConcMacRecycle
    \/ ConcMacSelect
    \/ ConcMacDraw
    \/ ConcMacCommit

SpecConcMac == InitConcMac /\ [][NextConcMac]_vars

-----------------------------------------------------------------------------
(* The MAC life-cycle model: the handlers allocate MAC addresses from two  *)
(* small ranges, by draw or by name, and deallocate them; time passes.     *)

MaxMacCalls == 3

MacExhausted == "MacAddressGenerationFailure"
NotFound == "NotFound"

\* an update that sets the flag and leaves the timestamp
MacDeallocatedUnstamped(m) == [m EXCEPT !.deallocated = TRUE]

\* db_api.mac_address_update(context, mac, deallocated=True,
\*     deallocated_at=timeutils.utcnow())
MacDeallocated(m) == [m EXCEPT !.deallocated = TRUE, !.deallocated_at = now]

\* a lookup that does not look at the address
MacsByAddressAny(db, address) == db.macs

\* db_api.mac_address_find(context, address=address, scope=ONE): the rows
\* one of which it returns
MacsByAddress(db, address) == { m \in db.macs : m.address = address }

NoMac == [address |-> None]

\* the record of a MAC call: the address asked for, the row returned, whether
\* it was recycled, and the range a new row was bound to
NoMacCall == [op |-> "none", tenant |-> "none", mac_address |-> None,
              err |-> NoError, returned |-> NoMac, recycled |-> FALSE,
              range |-> NoRange]

\* the addresses a caller asks for by name: in the first range, in the
\* second, in none
ReqMacs == {17, 33, 48}

MacRanges ==
    [id \in {"r1", "r2"} |->
        IF id = "r1" THEN MkRange("r1", 16, 17, 16)
        ELSE MkRange("r2", 32, 34, 32)]

\* lines 43-50: a deallocated row was found (any one of the candidates):
\* it is updated and returned
MacRecycle(t, mac_address) ==
    \E m \in DeallocatedMacs(MacDb(ranges, macs), ReuseAfter, mac_address) :
        /\ macs' = (macs \ {m}) \cup {MacRecycled(m)}
        /\ ranges' = ranges
        /\ last' = [NoMacCall EXCEPT !.op = "AllocateMac", !.tenant = t,
                        !.mac_address = mac_address,
                        !.returned = MacRecycled(m), !.recycled = TRUE]

\* lines 61-76 for the range rid: the address asked for, or the one drawn,
\* becomes a new row of the range
MacCreate(t, mac_address, rid) ==
    \E d \in { IF mac_address # None
                THEN [address |-> mac_address,
                      cursor |-> ranges[rid].next_auto_assign_mac]
                ELSE MacIterateFrom(MacDb(ranges, macs), t,
                                    ranges[rid].next_auto_assign_mac) } :
        /\ macs' = macs \cup {NewMac(t, d.address, rid)}
        /\ ranges' = [ranges EXCEPT ![rid].next_auto_assign_mac = d.cursor]
        /\ last' = [NoMacCall EXCEPT !.op = "AllocateMac", !.tenant = t,
                        !.mac_address = mac_address,
                        !.returned = NewMac(t, d.address, rid),
                        !.range = rid]

\* QuarkIpam.allocate_mac_address, called by create_port with the
\* configured reuse_after
AllocateMacCall(t, mac_address) ==
    IF DeallocatedMacs(MacDb(ranges, macs), ReuseAfter, mac_address) # {}
    THEN MacRecycle(t, mac_address)
    ELSE IF FirstRangeWithRoom(MacDb(ranges, macs), mac_address) = NoRange
    THEN /\ last' = [NoMacCall EXCEPT !.op = "AllocateMac", !.tenant = t,
                         !.mac_address = mac_address, !.err = MacExhausted]
         /\ UNCHANGED <<ranges, macs>>
    ELSE MacCreate(t, mac_address,
                   FirstRangeWithRoom(MacDb(ranges, macs), mac_address))

AllocateMac ==
    /\ hist.calls < MaxMacCalls
    /\ \E t \in Tenants, mac_address \in {None} \cup ReqMacs :
           AllocateMacCall(t, mac_address)
    /\ hist' = [hist EXCEPT !.calls = @ + 1]
    /\ UNCHANGED <<subnets, ips, nextId, portIps, now, netStrategy, procVars>>

\* QuarkIpam.deallocate_mac_address
DeallocateMac ==
    /\ \E address \in { m.address : m \in macs } \cup ReqMacs :
           IF MacsByAddress(MacDb(ranges, macs), address) = {}
           THEN /\ last' = [NoMacCall EXCEPT !.op = "DeallocateMac",
                                !.mac_address = address, !.err = NotFound]
                /\ UNCHANGED macs
           ELSE \E m \in MacsByAddress(MacDb(ranges, macs), address) :
                   /\ macs' = (macs \ {m}) \cup {MacDeallocated(m)}
                   /\ last' = [NoMacCall EXCEPT !.op = "DeallocateMac",
                                   !.mac_address = address,
                                   !.returned = MacDeallocated(m)]
    /\ UNCHANGED <<subnets, ips, nextId, portIps, now, netStrategy, hist,
                   ranges, procVars>>

\* time passes once a row is deallocated
MacTick ==
    /\ now < MaxTime
    /\ \E m \in macs : m.deallocated
    /\ now' = now + 1
    /\ UNCHANGED <<subnets, ips, nextId, portIps, netStrategy, last, hist,
                   macVars, procVars>>

InitMac ==
    /\ subnets = <<>>
    /\ ips = {}
    /\ nextId = 1
    /\ portIps = [p \in Ports |-> {}]
    /\ now = 0
    /\ netStrategy = "ANY"
    /\ last = NoMacCall
    /\ hist = NoHist
    /\ ranges = MacRanges
    /\ macs = {}
    /\ IdleProcs

NextMac ==
    \/ AllocateMac
    \/ DeallocateMac
    \/ MacTick

SpecMac == InitMac /\ [][NextMac]_vars

-----------------------------------------------------------------------------
(* The port-deletion model: two ports of one tenant, each with the MAC     *)
(* address create_port gave it; the MAC row of a port may be gone from the *)
(* store.  update_port gives a port an address of its own,                 *)
(* post_update_port one that another port may own too, and delete_port     *)
(* deletes the port.  hist.ports is the port table.                        *)

PortNotFound == "PortNotFound"

InitDelete ==
    /\ subnets = [id \in {"s1"} |-> LifeSubnet4]
    /\ ips = {}
    /\ nextId = 1
    /\ portIps = [p \in Ports |-> {}]
    /\ now = 0
    /\ netStrategy = "ANY"
    /\ last = NoCall
    /\ hist = [ports |-> [p \in Ports |->
                   [exists |-> TRUE,
                    mac_address |-> IF p = "p1" THEN 16 ELSE 32]]]
    /\ ranges = MacRanges
    /\ macs \in SUBSET { MkMac(16, "r1", "t1", FALSE, None),
                         MkMac(32, "r2", "t1", FALSE, None) }
    /\ IdleProcs

\* update_port of a port that has no address, with one fixed ip that names
\* a subnet and an address: QuarkIpamANY allocates the address
PortAllocateIp ==
    /\ \E p \in Ports, t \in LifeTenants, sid \in DOMAIN subnets,
          ip \in {Net4 + 1, Net4 + 2} :
           /\ hist.ports[p].exists
           /\ portIps[p] = {}
           /\ AllocateIpCall(<<"ANY",
                  Args(t, None, NoSegment, None, ip, {sid})>>, p)
    /\ nextId' <= MaxRows + 1
    /\ UNCHANGED <<now, netStrategy, hist, macVars, procVars>>

\* post_update_port with an ip_id, for the port found
PortAssociateIp ==
    /\ \E p \in Ports, r \in ips :
           /\ hist.ports[p].exists
           /\ r.used_by_tenant_id \in LifeTenants
           /\ ips' = (ips \ {r}) \cup {[r EXCEPT !.deallocated = FALSE]}
           /\ portIps' = [portIps EXCEPT ![p] = @ \cup {r.id}]
           /\ last' = [NoCall EXCEPT !.op = "AssociateIp",
                                     !.ip_address = r.address]
    /\ UNCHANGED <<subnets, nextId, now, netStrategy, hist, macVars,
                   procVars>>

\* the record of a delete_port call: the port, the error and the addresses
\* the port had
DeleteCall(p, err) ==
    [op |-> "DeletePort", port |-> p, err |-> err, had |-> portIps[p]]

\* delete_port: the port is looked up; in one transaction its MAC address
\* is deallocated (NotFound leaves the transaction rolled back), its IP
\* addresses are released and the port is deleted
DeletePort ==
    /\ \E p \in Ports :
           IF ~hist.ports[p].exists
           THEN /\ last' = DeleteCall(p, PortNotFound)
                /\ UNCHANGED <<ips, portIps, macs, hist>>
           ELSE IF MacsByAddress(MacDb(ranges, macs),
                                 hist.ports[p].mac_address) = {}
           THEN /\ last' = DeleteCall(p, NotFound)
                /\ UNCHANGED <<ips, portIps, macs, hist>>
           ELSE \E m \in MacsByAddress(MacDb(ranges, macs),
                                       hist.ports[p].mac_address) :
                   /\ macs' = (macs \ {m}) \cup {MacDeallocated(m)}
                   /\ ips' = AfterRelease(p, None)
                   /\ portIps' = [portIps EXCEPT ![p] = {}]
                   /\ hist' = [hist EXCEPT !.ports[p].exists = FALSE]
                   /\ last' = DeleteCall(p, NoError)
    /\ UNCHANGED <<subnets, nextId, now, netStrategy, ranges, procVars>>

NextDelete ==
    \/ PortAllocateIp
    \/ PortAssociateIp
    \/ DeletePort

SpecDelete == InitDelete /\ [][NextDelete]_vars

-----------------------------------------------------------------------------
(* The scan model: one caller at a time; the while loops of the draws      *)
(* (_iterate_until_available_ip and the loop of allocate_mac_address) take *)
(* one iteration per step, everything else of a call is one step.  The     *)
(* store starts with rows of tenant t1 before the cursors, aged out or     *)
(* not.  pc tells where the caller is, loc holds the locals of its loop;   *)
(* hist keeps the number of iterations the last loop of each kind took.    *)

MaxScanCalls == 3

NoScan == [tenant |-> "none", port |-> "none", id |-> "none",
           first |-> None, cursor |-> None]

ScanHist == [calls |-> 0, ipSteps |-> 0, macSteps |-> 0]

InitScan ==
    /\ subnets = [id \in {"s1"} |-> LifeSubnet4]
    /\ ips \in SUBSET { SeedIp(1, Net4 + 1, "s1", 4),
                        [SeedIp(2, Net4 + 2, "s1", 4) EXCEPT
                            !.deallocated = FALSE, !.deallocated_at = None] }
    /\ nextId = 3
    /\ portIps = [p \in Ports |-> {}]
    /\ now \in {0, ReuseAfter}
    /\ netStrategy = "ANY"
    /\ last = NoCall
    /\ hist = ScanHist
    /\ ranges = MacRanges
    /\ macs \in SUBSET { MkMac(16, "r1", "t1", TRUE, 0),
                         MkMac(32, "r2", "t1", TRUE, 0),
                         MkMac(33, "r2", "t1", FALSE, None) }
    /\ pc = "idle"
    /\ held = <<>>
    /\ loc = NoScan

\* a loop that forgets to move the cursor
CursorKept(cur) == cur

\* subnet["next_auto_assign_ip"] = next_ip_int + 1
CursorAfter(cur) == cur + 1

\* allocate_ip_address up to the while loop of the draw: a call that
\* reclaims a row, fails in the reallocation or finds no subnet with room
\* ends here; else the loop begins at the cursor of the subnet chosen
ScanIpBeginBy(t, p) ==
    \E a \in {Args(t, ReuseAfter, NoSegment, None, None, {})} :
    \E re \in {AttemptToReallocateIp(netStrategy,
                    SessionBegin(Session(Db(subnets, ips, nextId))), a)} :
    \E ch \in {ChooseSubnets(netStrategy, re.s.db, a, re.res)} :
        IF \/ re.err # NoError
           \/ IsStrategySatisfied(netStrategy, re.s.db, re.res)
           \/ ch.err # NoError
        THEN /\ AllocateIpCall(<<netStrategy, a>>, p)
             /\ hist' = [hist EXCEPT !.calls = @ + 1]
             /\ UNCHANGED <<pc, loc>>
        ELSE /\ subnets' = re.s.db.subnets
             /\ ips' = re.s.db.ips
             /\ nextId' = re.s.db.nextId
             /\ pc' = "ipscan"
             /\ loc' = [NoScan EXCEPT !.tenant = t, !.port = p,
                            !.id = ch.subs[1],
                            !.first = re.s.db.subnets[ch.subs[1]]
                                          .next_auto_assign_ip,
                            !.cursor = re.s.db.subnets[ch.subs[1]]
                                           .next_auto_assign_ip]
             /\ UNCHANGED <<portIps, last, hist>>

ScanIpBegin ==
    /\ pc = "idle"
    /\ hist.calls < MaxScanCalls
    /\ \E t \in Tenants, p \in Ports : ScanIpBeginBy(t, p)
    /\ UNCHANGED <<now, netStrategy, macVars, held>>

\* one iteration of the while loop of _iterate_until_available_ip; the
\* iteration that finds no row ends the loop, and the call ends with the
\* row created and the cursor written
ScanIpStep ==
    /\ pc = "ipscan"
    /\ IF \/ loc.cursor \in PolicyCidrs(subnets[loc.id])
          \/ IpOfTenant(Db(subnets, ips, nextId), loc.cursor,
                        loc.tenant) # {}
       THEN /\ loc' = [loc EXCEPT !.cursor = CursorAfter(@)]
            /\ UNCHANGED <<subnets, ips, nextId, portIps, last, hist, pc>>
       ELSE /\ ips' = ips \cup {NewIp(Db(subnets, ips, nextId), loc.tenant,
                                       loc.cursor, subnets[loc.id])}
            /\ subnets' = [subnets EXCEPT ![loc.id].next_auto_assign_ip =
                                             CursorAfter(loc.cursor)]
            /\ nextId' = nextId + 1
            /\ portIps' = [portIps EXCEPT ![loc.port] = @ \cup {nextId}]
            /\ last' = [NoCall EXCEPT !.op = "AllocateIp",
                                      !.ip_address = loc.cursor,
                                      !.reuse_after = ReuseAfter,
                                      !.created = <<nextId>>,
                                      !.chosen = <<loc.id>>,
                                      !.selecting = TRUE]
            /\ hist' = [hist EXCEPT !.calls = @ + 1,
                                    !.ipSteps =
                                        CursorAfter(loc.cursor) - loc.first]
            /\ pc' = "idle"
            /\ loc' = NoScan
    /\ UNCHANGED <<now, netStrategy, macVars, held>>

\* allocate_mac_address up to the while loop of the draw: a call that
\* recycles a row or finds every range full ends here
ScanMacBeginBy(t) ==
    IF \/ DeallocatedMacs(MacDb(ranges, macs), ReuseAfter, None) # {}
       \/ FirstRangeWithRoom(MacDb(ranges, macs), None) = NoRange
    THEN /\ AllocateMacCall(t, None)
         /\ hist' = [hist EXCEPT !.calls = @ + 1]
         /\ UNCHANGED <<pc, loc>>
    ELSE /\ pc' = "macscan"
         /\ loc' = [NoScan EXCEPT !.tenant = t,
                        !.id = FirstRangeWithRoom(MacDb(ranges, macs), None),
                        !.first =
                            ranges[FirstRangeWithRoom(MacDb(ranges, macs),
                                                      None)]
                                .next_auto_assign_mac,
                        !.cursor =
                            ranges[FirstRangeWithRoom(MacDb(ranges, macs),
                                                      None)]
                                .next_auto_assign_mac]
         /\ UNCHANGED <<ranges, macs, last, hist>>

ScanMacBegin ==
    /\ pc = "idle"
    /\ hist.calls < MaxScanCalls
    /\ \E t \in Tenants : ScanMacBeginBy(t)
    /\ UNCHANGED <<subnets, ips, nextId, portIps, now, netStrategy, held>>

\* one iteration of the while loop of allocate_mac_address; the iteration
\* that finds no row ends the loop, and the call ends with the row created
ScanMacStep ==
    /\ pc = "macscan"
    /\ IF MacOfTenant(MacDb(ranges, macs), loc.cursor, loc.tenant) # {}
       THEN /\ loc' = [loc EXCEPT !.cursor = @ + 1]
            /\ UNCHANGED <<ranges, macs, last, hist, pc>>
       ELSE /\ macs' = macs \cup {NewMac(loc.tenant, loc.cursor, loc.id)}
            /\ ranges' = [ranges EXCEPT ![loc.id].next_auto_assign_mac =
                                           loc.cursor + 1]
            /\ last' = [NoMacCall EXCEPT !.op = "AllocateMac",
                            !.tenant = loc.tenant,
                            !.returned = NewMac(loc.tenant, loc.cursor,
                                                loc.id),
                            !.range = loc.id]
            /\ hist' = [hist EXCEPT !.calls = @ + 1,
                                    !.macSteps =
                                        loc.cursor + 1 - loc.first]
            /\ pc' = "idle"
            /\ loc' = NoScan
    /\ UNCHANGED <<subnets, ips, nextId, portIps, now, netStrategy, held>>

NextScan ==
    \/ ScanIpBegin
    \/ ScanIpStep
    \/ ScanMacBegin
    \/ ScanMacStep

\* the thread of a call that is in a loop keeps running
SpecScan ==
    /\ InitScan
    /\ [][NextScan]_vars
    /\ WF_vars(ScanIpStep)
    /\ WF_vars(ScanMacStep)

-----------------------------------------------------------------------------
(* Properties of the fresh-draw model (SpecFresh) *)

C1Policy == {Range(Net4, Net4), Range(Net4 + 7, Net4 + 7)}

\* the network is the one /29 excluding 10.0.0.0 and 10.0.0.7, cursor at .1
C1Scenario ==
    /\ DOMAIN subnets = {"s1"}
    /\ subnets["s1"].policy = C1Policy

C1Expected == [i \in 1 .. 6 |-> <<"s1", Net4 + i>>]

\* C1: on the /29 that excludes .0 and .7, with the cursor at .1, sequential
\* AllocateIp calls with no requested address return .1, .2, ..., .6 in that
\* order (each of the first six calls succeeds with the next address), and
\* the seventh call fails with the IP-generation-exhaustion error.
C1_SixThenExhausted ==
    C1Scenario =>
        /\ hist.drawn = SubSeq(C1Expected, 1,
                               IF hist.calls < 6 THEN hist.calls ELSE 6)
        /\ hist.calls \in 1 .. 6 => last.err = NoError
        /\ hist.calls >= 7 => last.err = Exhausted

C1_Witness ==
    /\ C1Scenario
    /\ hist.calls = 7
    /\ hist.drawn = C1Expected
    /\ last.err = Exhausted

\* the (subnet, address) pairs a step adds to the drawn ones
NewlyDrawn ==
    { hist'.drawn[i] : i \in (Len(hist.drawn) + 1) .. Len(hist'.drawn) }

\* C2: over a sequence of auto-draw AllocateIp calls with no deallocation,
\* no call returns an address of a subnet that an earlier call returned from
\* that subnet, and no subnet's next_auto_assign_ip decreases in a step.
C2_NoRepeatCursorMonotone ==
    [][ /\ \A id \in DOMAIN subnets :
              subnets'[id].next_auto_assign_ip
                  >= subnets[id].next_auto_assign_ip
        /\ NewlyDrawn \cap ToSet(hist.drawn) = {}
        /\ Cardinality(NewlyDrawn) = Len(hist'.drawn) - Len(hist.drawn)
      ]_vars

\* callers of both tenants have drawn from the same subnet, and its cursor
\* has moved past the addresses drawn
C2_Witness ==
    /\ \E r1, r2 \in ips :
           /\ r1.used_by_tenant_id # r2.used_by_tenant_id
           /\ r1.subnet_id = "s1" /\ r2.subnet_id = "s1"
    /\ Len(hist.drawn) >= 3
    /\ \A i \in DOMAIN hist.drawn :
           hist.drawn[i][1] = "s1" =>
               hist.drawn[i][2] < subnets["s1"].next_auto_assign_ip

\* C3: no address the auto-draw path produced from a subnet lies inside one
\* of that subnet's excluded ranges.
C3_DrawnOutsidePolicy ==
    \A i \in DOMAIN hist.drawn :
        \A r \in subnets[hist.drawn[i][1]].policy :
            ~(r.lo <= hist.drawn[i][2] /\ hist.drawn[i][2] <= r.hi)

\* a draw has stepped over an excluded range in the middle of the subnet
C3_Witness ==
    /\ subnets["s1"].policy = {Range(Net4 + 2, Net4 + 4)}
    /\ \E i \in DOMAIN hist.drawn :
           /\ i > 1
           /\ hist.drawn[i] = <<"s1", Net4 + 5>>
           /\ hist.drawn[i - 1] = <<"s1", Net4 + 1>>

-----------------------------------------------------------------------------
(* Properties of the life-cycle model (Spec) *)

\* a step of the model that is a call of allocate_ip_address
IsAllocStep == last'.op = "AllocateIp" /\ now' = now

\* the arguments select_subnet is called with: by the strategies (a segment
\* or none, a version or none) and for the subnet update_port names
SelectArgs ==
    { <<ip, sg, {}, ver>> :
        ip \in {None} \cup ReqIps, sg \in {NoSegment, Seg, OtherSeg},
        ver \in {None, 4, 6} }
    \cup
    { <<ip, NoSegment, {id}, None>> :
        ip \in {None} \cup ReqIps, id \in DOMAIN subnets }

SelectOf(x) == SelectSubnet(Db(subnets, ips, nextId), x[1], x[2], x[3], x[4])

\* the rows that occupy an address of the subnet
Occupied(id) == Cardinality({ r \in ips : r.subnet_id = id /\ ~r.deallocated })

\* the number of addresses the subnet's IP policy excludes
ExclusionSize(id) ==
    Cardinality({ a \in subnets[id].first ..
                        subnets[id].first + subnets[id].size - 1 :
                    \E r \in subnets[id].policy : r.lo <= a /\ a <= r.hi })

\* the subnets select_subnet looks at for the arguments x
Listed(x) ==
    { id \in DOMAIN subnets :
        /\ x[2] # NoSegment => subnets[id].segment_id = x[2]
        /\ x[3] # {} => id \in x[3]
        /\ x[4] # None => subnets[id].ip_version = x[4] }

\* C4 as stated: whatever the arguments, with or without a requested address,
\* the subnet SelectSubnet returns has occupied + exclusion size below its
\* capacity.
C4_Original ==
    \A x \in SelectArgs :
        SelectOf(x) # NoSubnet =>
            subnets[SelectOf(x)].size
                > Occupied(SelectOf(x)) + ExclusionSize(SelectOf(x))

\* the test of C4_Amended on subnet id for the requested address ip
Passes(id, ip) ==
    IF ip = None
    THEN subnets[id].size > Occupied(id) + ExclusionSize(id)
    ELSE /\ subnets[id].size > Occupied(id)
         /\ IPVersion(ip) = subnets[id].ip_version
         /\ subnets[id].first <= ip
         /\ ip < subnets[id].first + subnets[id].size

\* C4 (amended): with no requested address the subnet SelectSubnet returns
\* has occupied + exclusion size below its capacity; with a requested address
\* it contains the address and has occupied (exclusions not counted) below
\* its capacity; SelectSubnet returns none exactly when no subnet it looks at
\* passes.
C4_Amended ==
    \A x \in SelectArgs :
        /\ SelectOf(x) # NoSubnet =>
               SelectOf(x) \in Listed(x) /\ Passes(SelectOf(x), x[1])
        /\ SelectOf(x) = NoSubnet => \A id \in Listed(x) : ~Passes(id, x[1])

\* a call that asked for an address chose a subnet whose rows and
\* exclusions together fill it
C4_Witness ==
    /\ last.op = "AllocateIp"
    /\ last.ip_address = Net4 + 2
    /\ last.chosen = <<"s1">>
    /\ Occupied("s1") + ExclusionSize("s1") >= subnets["s1"].size
    /\ SelectOf(<<None, NoSegment, {}, 4>>) = NoSubnet

\* the calls a handler makes for port p
LifeCalls(p) == CreatePortCalls \cup UpdatePortCalls(p)

\* the deallocated, aged-out rows in the subnets a call with arguments a may
\* take addresses from
C5Cands(a) ==
    { r \in ips :
        /\ r.deallocated
        /\ a.reuse_after # None =>
               r.deallocated_at # None /\ r.deallocated_at + a.reuse_after <= now
        /\ a.subnets # {} => r.subnet_id \in a.subnets
        /\ (a.subnets = {} /\ a.segment_id # NoSegment) =>
               /\ r.subnet_id \in DOMAIN subnets
               /\ subnets[r.subnet_id].segment_id = a.segment_id }

\* the step returns row r alone, reclaimed, and creates and draws nothing
ReclaimedAlone(r) ==
    /\ last'.err = NoError
    /\ last'.realloc = <<r.id>>
    /\ last'.created = <<>>
    /\ [r EXCEPT !.deallocated = FALSE, !.deallocated_at = None] \in ips'
    /\ { q.id : q \in ips' } = { q.id : q \in ips }
    /\ nextId' = nextId
    /\ subnets' = subnets

C5Lowest(a) == { r \in C5Cands(a) : \A q \in C5Cands(a) : r.address <= q.address }

\* the row lies in the cidr of the subnet it records
C5Consistent(r) ==
    /\ r.subnet_id \in DOMAIN subnets
    /\ subnets[r.subnet_id].first <= r.address
    /\ r.address < subnets[r.subnet_id].first + subnets[r.subnet_id].size

ReclaimedRows == { r \in ips : r.id \in ToSet(last'.realloc) }

Returned == { r \in ips : r.id \in ToSet(last.realloc \o last.created) }

\* C9: a successful AllocateIp under BOTH_REQUIRED returns an IPv4 and an
\* IPv6 address, and a call in which the reclaimed addresses and the chosen
\* subnets number fewer than two fails with the exhaustion error.
C9_NoPartial ==
    (last.op = "AllocateIp" /\ last.strategy = "BOTH_REQUIRED") =>
        /\ last.err = NoError =>
               \A v \in {4, 6} : \E r \in Returned : r.version = v
        /\ Len(last.realloc) + Len(last.chosen) < 2 => last.err = Exhausted

\* nothing reclaimed and one subnet chosen: the call failed
C9_Witness ==
    /\ last.op = "AllocateIp"
    /\ last.strategy = "BOTH_REQUIRED"
    /\ last.realloc = <<>>
    /\ Len(last.chosen) = 1
    /\ last.err = Exhausted

\* C10: a BOTH_REQUIRED call that fails with the exhaustion error leaves the
\* rows it had reclaimed as they were (deallocated, with their timestamps),
\* leaves no new row and moves no cursor.
C10_NoOrphan ==
    [][ ( /\ IsAllocStep
          /\ last'.strategy = "BOTH_REQUIRED"
          /\ last'.err = Exhausted )
        => /\ \A r \in ReclaimedRows : r.deallocated /\ r \in ips'
           /\ { q.id : q \in ips' } \subseteq { q.id : q \in ips }
           /\ nextId' = nextId
           /\ \A id \in DOMAIN subnets :
                  subnets'[id].next_auto_assign_ip
                      = subnets[id].next_auto_assign_ip
      ]_vars

\* a BOTH_REQUIRED call reclaimed an address, failed, and the address is
\* deallocated
C10_Witness ==
    /\ last.op = "AllocateIp"
    /\ last.strategy = "BOTH_REQUIRED"
    /\ last.err = Exhausted
    /\ Len(last.realloc) = 1
    /\ \E r \in ips : r.id = last.realloc[1] /\ r.deallocated

\* C11: under BOTH, a call whose reallocation reclaims an IPv4 and an IPv6
\* address returns exactly those two rows, reclaimed; it does not go on to
\* choose subnets, creates no row and moves no cursor.
C11_BothReclaimedOnly ==
    [][ ( /\ IsAllocStep
          /\ last'.strategy = "BOTH"
          /\ { r.version : r \in ReclaimedRows } = {4, 6} )
        => /\ last'.err = NoError
           /\ Len(last'.realloc) = 2
           /\ last'.created = <<>>
           /\ ~last'.selecting
           /\ last'.chosen = <<>>
           /\ \A r \in ReclaimedRows : r.deallocated /\ Reclaimed(r) \in ips'
           /\ { q.id : q \in ips' } = { q.id : q \in ips }
           /\ nextId' = nextId
           /\ subnets' = subnets
      ]_vars

\* a BOTH call has returned a reclaimed IPv4 row and a reclaimed IPv6 row
C11_Witness ==
    /\ last.op = "AllocateIp"
    /\ last.strategy = "BOTH"
    /\ last.err = NoError
    /\ Len(last.realloc) = 2
    /\ last.created = <<>>
    /\ { r.version : r \in Returned } = {4, 6}
    /\ \A r \in Returned : ~r.deallocated

\* the addresses a strategy asks of a call
RequiredCount(strategy) == IF strategy = "BOTH_REQUIRED" THEN 2 ELSE 1

\* the subnets the last call's selection came back with
ChosenSubnets == SelectSeq(last.chosen, LAMBDA x : x # NoSubnet)

\* the last call went on to fresh allocation and its selection found fewer
\* subnets than the strategy still needed
NeededAndNoSubnet ==
    /\ last.op = "AllocateIp"
    /\ last.selecting
    /\ Len(last.realloc) + Len(ChosenSubnets) < RequiredCount(last.strategy)

\* C15 as stated: a call that needs a fresh address and finds no subnet that
\* qualifies fails with IpAddressGenerationFailure and creates no row, under
\* every strategy, whether the strategy chooses the subnets or the caller
\* names them.
C15_Original ==
    NeededAndNoSubnet => (last.err = Exhausted /\ last.created = <<>>)

\* C19 as stated: a successful call emits the address-create notification
\* for every address it created and for no address it reclaimed, under every
\* strategy.
C19_Original ==
    (last.op = "AllocateIp" /\ last.err = NoError) =>
        /\ ToSet(last.created) \subseteq ToSet(last.notified)
        /\ ToSet(last.realloc) \cap ToSet(last.notified) = {}

-----------------------------------------------------------------------------
(* Properties of the concurrent draw model (SpecConcIp) *)

\* the rows written and not yet committed
PendingRows == UNION { loc[c].rows : c \in Callers }

\* C7: whatever the interleaving of the callers' steps, the cursor values
\* two calls read from a subnet do not overlap, no two calls return the same
\* address of a subnet, and a subnet's occupying rows and exclusions
\* together never exceed its capacity.
C7_NoSharedCursor ==
    /\ \A i, j \in DOMAIN hist.reads :
           (i < j /\ hist.reads[i][1] = hist.reads[j][1]) =>
               \/ hist.reads[i][3] <= hist.reads[j][2]
               \/ hist.reads[j][3] <= hist.reads[i][2]
    /\ \A r, q \in ips \cup PendingRows :
           (r.subnet_id = q.subnet_id /\ r.address = q.address) => r = q
    /\ \A id \in DOMAIN subnets :
           Cardinality({ r \in ips \cup PendingRows :
                           r.subnet_id = id /\ ~r.deallocated })
               + ExclusionSize(id) <= subnets[id].size

\* a second caller has drawn from where the first one's committed draw
\* ended, while a third party waits for the rows it holds
C7_Witness ==
    \E c, d \in Callers :
        /\ c # d
        /\ pc[c] = "drawn" /\ pc[d] = "idle"
        /\ held["s1"] = c
        /\ Cardinality(ips) = 1
        /\ Len(hist.reads) = 2
        /\ hist.reads[1][3] = hist.reads[2][2]
        /\ \E r \in ips, q \in loc[c].rows : r.address < q.address

-----------------------------------------------------------------------------
(* Properties of the concurrent MAC model (SpecConcMac) *)

\* the callers that are between the recycle lookup and its update
Recycling == { c \in Callers : pc[c] = "recycle" }

\* the callers that are between the range scan and the commit
Scanning == { c \in Callers : pc[c] \in {"selected", "drawn"} }

\* C8: in any interleaving of concurrent allocate_mac_address calls, no two
\* calls recycle the same deallocated row and no two calls draw the same
\* next_auto_assign_mac value of a range; a call that is recycling holds the
\* lock on the row it found and a call that is drawing holds the lock on
\* the ranges it read.
C8_NoSharedRecycleOrDraw ==
    /\ \A c1, c2 \in Recycling :
           c1 # c2 => loc[c1].mac.address # loc[c2].mac.address
    /\ \A i, j \in DOMAIN hist.recycled :
           i < j => hist.recycled[i] # hist.recycled[j]
    /\ \A c \in Recycling :
           /\ loc[c].mac.address \notin ToSet(hist.recycled)
           /\ held.macs[loc[c].mac.address] = c
    /\ \A i, j \in DOMAIN hist.reads :
           (i < j /\ hist.reads[i][1] = hist.reads[j][1])
               => hist.reads[i][3] <= hist.reads[j][2]
    /\ \A i, j \in DOMAIN hist.drawn :
           i < j => hist.drawn[i] # hist.drawn[j]
    /\ \A c \in Scanning : held.ranges[loc[c].range.id] = c

\* two rows have been recycled, a draw has been committed, and a second
\* drawer holds the range while another caller waits to scan it
C8_Witness ==
    /\ Len(hist.recycled) = 2
    /\ Len(hist.reads) = 2
    /\ \E c1, c2 \in Callers : pc[c1] = "drawn" /\ pc[c2] = "scan"

-----------------------------------------------------------------------------
(* Properties of the self-healing model (SpecHeal) *)

\* the searches the last call's reallocation made, each by the versions it
\* looked for: one under ANY, one per version under BOTH
Searches == IF hist.strategy = "ANY" THEN {{4, 6}} ELSE {{4}, {6}}

\* the search of the last call was by explicit subnet ids or by network
ByIdsOrNetwork == hist.args.subnets # {} \/ hist.args.segment_id = NoSegment

\* the rows a search for versions V of the last call could find, as the
\* store was before the call
HealCands(V) ==
    { r \in hist.before :
        /\ r.deallocated
        /\ r.deallocated_at # None
        /\ r.deallocated_at + hist.args.reuse_after <= now
        /\ r.version \in V
        /\ hist.args.subnets # {} => r.subnet_id \in hist.args.subnets
        /\ ~ByIdsOrNetwork =>
               subnets[r.subnet_id].segment_id = hist.args.segment_id }

Corrupt(r) == ~C5Consistent(r)

\* the corrupt candidates that come before every consistent one
Leading(V) ==
    { r \in HealCands(V) :
        /\ Corrupt(r)
        /\ \A q \in HealCands(V) : ~Corrupt(q) => r.address < q.address }

\* the rows of versions V that the last call removed
Purged(V) ==
    { r \in hist.before : r.version \in V /\ r.id \notin { q.id : q \in ips } }

\* the consistent candidate of lowest address was reclaimed
LowestReclaimed(V) ==
    \E r \in HealCands(V) \ Leading(V) :
        /\ \A q \in HealCands(V) \ Leading(V) : r.address <= q.address
        /\ r.id \in ToSet(last.realloc)
        /\ Reclaimed(r) \in ips

\* C12: each search of ReallocateIp deletes the corrupt candidates it finds
\* and retries, at most 3 times: it deletes at most 3 rows, all of them
\* corrupt candidates; a search by subnet ids or by network deletes the
\* (up to 3) corrupt candidates of lowest address and then reclaims the
\* lowest consistent one, or, when three corrupt candidates come first,
\* returns nothing; and reallocation raises no error except for a segment
\* without subnets.
C12_SelfHeal ==
    hist.calls > 0 =>
        /\ last.deleted <= 3 * Cardinality(Searches)
        /\ (last.err # NoError /\ ~last.selecting) =>
               (hist.args.segment_id = OtherSeg /\ hist.args.subnets = {})
        /\ last.err = NoError =>
             \A V \in Searches :
               /\ Purged(V) \subseteq Leading(V)
               /\ Cardinality(Purged(V)) <= 3
               /\ ByIdsOrNetwork =>
                    /\ Cardinality(Purged(V)) =
                           IF Cardinality(Leading(V)) < 3
                           THEN Cardinality(Leading(V)) ELSE 3
                    /\ \A r \in Purged(V), q \in Leading(V) \ Purged(V) :
                           r.address < q.address
                    /\ Cardinality(Leading(V)) >= 3 =>
                           \A q \in hist.before :
                               q.id \in ToSet(last.realloc) => q.version \notin V
                    /\ ( /\ Cardinality(Leading(V)) < 3
                         /\ HealCands(V) \ Leading(V) # {} )
                           => LowestReclaimed(V)

\* an ANY call deleted three corrupt rows and reclaimed nothing, though a
\* consistent candidate and a fourth corrupt one are still there
C12_Witness ==
    /\ hist.calls = 1
    /\ hist.strategy = "ANY"
    /\ last.err = NoError
    /\ last.deleted = 3
    /\ last.realloc = <<>>
    /\ SeedIp(4, Net4 + 1, "s1", 4) \in ips
    /\ SeedIp(5, Net4 + 4, "s1", 4) \in ips

\* C20: a call with a segment id and no subnet ids, for a segment in which
\* the network has no subnets, fails with IpAddressGenerationFailure in its
\* first attempt: it deletes nothing, reclaims nothing, does not go on to
\* fresh allocation, and leaves the store as it was.
C20_EmptySegmentFails ==
    ( /\ hist.calls > 0
      /\ hist.args.subnets = {}
      /\ hist.args.segment_id # NoSegment
      /\ \A id \in DOMAIN subnets :
             subnets[id].segment_id # hist.args.segment_id )
    => /\ last.err = Exhausted
       /\ last.deleted = 0
       /\ last.realloc = <<>>
       /\ last.created = <<>>
       /\ ~last.selecting
       /\ ips = hist.before

\* a call for a segment without subnets failed while a corrupt row and a
\* consistent one were there to be found
C20_Witness ==
    /\ hist.calls > 0
    /\ hist.args.segment_id = OtherSeg
    /\ last.err = Exhausted
    /\ SeedIp(1, Net4 - 3, "s1", 4) \in ips
    /\ SeedIp(4, Net4 + 1, "s1", 4) \in ips

-----------------------------------------------------------------------------
(* Properties of the sharing model (SpecShare) *)

\* a step of the model that is a call of deallocate_ip_address
IsDeallocStep == last'.op = "DeallocateIp" /\ now' = now

\* the row of ips' with the id of r
After(r) == CHOOSE q \in ips' : q.id = r.id

\* C13: deallocate_ip_address detaches from the port every address it
\* releases; an address another port still owns keeps its deallocated flag
\* false, and an address the port was the only owner of is deallocated (flag
\* true, stamped with the time); no other row and no other port changes.
C13_LastOwnerDeallocates ==
    [][ IsDeallocStep =>
        \A p \in Ports :
            portIps'[p] # portIps[p] =>
                /\ portIps'[p] \subseteq portIps[p]
                /\ \A q \in Ports \ {p} : portIps'[q] = portIps[q]
                /\ { r.id : r \in ips' } = { r.id : r \in ips }
                /\ \A r \in ips :
                      IF r.id \in portIps[p] \ portIps'[p]
                      THEN IF PortsOf(portIps, r.id) = {p}
                           THEN /\ After(r).deallocated
                                /\ After(r).deallocated_at = now
                           ELSE /\ ~After(r).deallocated
                                /\ After(r) = r
                      ELSE r \in ips'
      ]_vars

\* an address was released by one of its two owners: the other port still
\* owns it and it is not deallocated
C13_Witness ==
    /\ last.op = "DeallocateIp"
    /\ last.ip_address # None
    /\ \E r \in ips, q \in Ports :
           /\ r.address = last.ip_address
           /\ \A x \in ips : x.address = r.address => x = r
           /\ ~r.deallocated
           /\ PortsOf(portIps, r.id) = {q}

-----------------------------------------------------------------------------
(* Properties of the registry model (SpecRegistry) *)

\* C14 as stated: whatever the name asked for and whatever the configured
\* default, get_strategy raises nothing; it returns the strategy of that name
\* when the name is registered and the configured default strategy otherwise.
C14_Original ==
    last.op = "GetStrategy" =>
        /\ last.err = NoError
        /\ netStrategy \in Strategies => last.strategy = netStrategy
        /\ netStrategy \notin Strategies => last.strategy = hist.conf

-----------------------------------------------------------------------------
(* Properties of the MAC life-cycle model (SpecMac) *)

\* a step of the model that is a call of allocate_mac_address
IsMacAllocStep ==
    last'.op = "AllocateMac" /\ now' = now /\ hist'.calls = hist.calls + 1

\* a step of the model that is a call of deallocate_mac_address
IsMacDeallocStep ==
    last'.op = "DeallocateMac" /\ now' = now /\ hist' = hist

\* the deallocated rows old enough to recycle that match the address asked
\* for (any row when none is asked for)
MacCandsOf(req) ==
    { m \in macs :
        /\ m.deallocated
        /\ m.deallocated_at # None
        /\ m.deallocated_at + ReuseAfter <= now
        /\ req # None => m.address = req }

\* row m with its flag and timestamp cleared
Cleared(m) == [m EXCEPT !.deallocated = FALSE, !.deallocated_at = None]

\* C16: whenever a deallocated row matching the request and older than
\* reuse_after exists, allocate_mac_address returns such a row with flag and
\* timestamp cleared, creates no row and leaves every range's cursor where
\* it was.
C16_RecyclePreferred ==
    [][ (IsMacAllocStep /\ MacCandsOf(last'.mac_address) # {}) =>
        \E m \in MacCandsOf(last'.mac_address) :
            /\ last'.err = NoError
            /\ last'.recycled
            /\ last'.returned = Cleared(m)
            /\ macs' = (macs \ {m}) \cup {Cleared(m)}
            /\ ranges' = ranges
      ]_vars

\* a call that asked for no address was served a recycled row while a range
\* had room for a new one
C16_Witness ==
    /\ last.op = "AllocateMac"
    /\ last.mac_address = None
    /\ last.recycled
    /\ last.returned \in macs
    /\ ~last.returned.deallocated /\ last.returned.deallocated_at = None
    /\ \E id \in DOMAIN ranges : RangeHasRoom(MacDb(ranges, macs), id)

\* the ranges a call asking for req looks at
MatchingRanges(req) ==
    { id \in DOMAIN ranges :
        req # None => /\ ranges[id].first_address <= req
                      /\ req <= ranges[id].last_address }

\* the rows that occupy an address of the range
MacOccupied(id) ==
    Cardinality({ m \in macs : m.mac_address_range_id = id /\ ~m.deallocated })

\* the ranges the call does not skip
NonFull(req) ==
    { id \in MatchingRanges(req) :
        ranges[id].last_address - ranges[id].first_address > MacOccupied(id) }

\* the first of them, in the order of the store
FirstNonFull(req) ==
    Head(SelectSeq(RangeOrder, LAMBDA id : id \in NonFull(req)))

\* C17: allocate_mac_address fails with MacAddressGenerationFailure exactly
\* when no deallocated row is eligible and every range that matches the
\* request is full (last - first <= occupied) or none matches; it then
\* creates no row and moves no cursor.  When no row is eligible and a
\* matching range is not full, the first such range yields a new row bound
\* to it, and no other range changes.
C17_ExhaustedExactly ==
    [][ IsMacAllocStep =>
        /\ last'.err \in {NoError, MacExhausted}
        /\ last'.err = MacExhausted <=>
               (MacCandsOf(last'.mac_address) = {}
                    /\ NonFull(last'.mac_address) = {})
        /\ last'.err = MacExhausted => (macs' = macs /\ ranges' = ranges)
        /\ (MacCandsOf(last'.mac_address) = {}
                /\ NonFull(last'.mac_address) # {}) =>
             /\ last'.range = FirstNonFull(last'.mac_address)
             /\ last'.returned.mac_address_range_id = last'.range
             /\ ~last'.returned.deallocated
             /\ last'.mac_address # None =>
                    last'.returned.address = last'.mac_address
             /\ macs' = macs \cup {last'.returned}
             /\ \A id \in DOMAIN ranges \ {last'.range} :
                    ranges'[id] = ranges[id]
      ]_vars

\* a call that asked for an address of the first range failed because the
\* range is full, while the second range has room
C17_Witness ==
    /\ last.op = "AllocateMac"
    /\ last.err = MacExhausted
    /\ last.mac_address = 17
    /\ MacOccupied("r1") =
           ranges["r1"].last_address - ranges["r1"].first_address
    /\ RangeHasRoom(MacDb(ranges, macs), "r2")

\* C18: deallocate_mac_address fails with not-found and changes nothing when
\* no row has the address; otherwise it sets the flag of a row of that
\* address, stamps it with the time, and changes no other row.
C18_DeallocateMac ==
    [][ IsMacDeallocStep =>
        IF \A m \in macs : m.address # last'.mac_address
        THEN /\ last'.err = NotFound
             /\ macs' = macs
             /\ ranges' = ranges
        ELSE /\ last'.err = NoError
             /\ ranges' = ranges
             /\ \E m \in macs :
                   /\ m.address = last'.mac_address
                   /\ macs' = (macs \ {m}) \cup
                        {[m EXCEPT !.deallocated = TRUE,
                                   !.deallocated_at = now]}
      ]_vars

\* a row was deallocated after the clock moved, and another row is still
\* allocated
C18_Witness ==
    /\ last.op = "DeallocateMac"
    /\ last.err = NoError
    /\ now > 0
    /\ \E m, q \in macs :
           /\ m.address = last.mac_address
           /\ m.deallocated /\ m.deallocated_at = now
           /\ q.address # m.address /\ ~q.deallocated

-----------------------------------------------------------------------------
(* Properties of calls that ask for an IP version (SpecHeal) *)

\* the rows the last call returned
ReturnedRows == { r \in ips : r.id \in ToSet(last.realloc \o last.created) }

\* C21 as stated: under ANY, when the caller asks for an IP version, every
\* address AllocateIp returns, reclaimed or created, has that version.
C21_Original ==
    ( /\ hist.calls > 0
      /\ hist.strategy = "ANY"
      /\ hist.args.version # None
      /\ last.err = NoError )
    => \A r \in ReturnedRows : r.version = hist.args.version

-----------------------------------------------------------------------------
(* Properties of the BOTH strategy (Spec) *)

\* the versions of the subnets the last call's selection came back with
ChosenVersions ==
    { subnets[ChosenSubnets[i]].ip_version : i \in DOMAIN ChosenSubnets }

\* the versions of the rows the last call reclaimed (a failed call's reclaim
\* is rolled back: the rows are there, deallocated again)
ReclaimedVersions == { r.version : r \in { q \in ips : q.id \in ToSet(last.realloc) } }

\* the last call chose subnets only for versions it had not reclaimed, and
\* its result, if any, holds one address at least and one per version at most
BothChoice ==
    /\ ChosenVersions \cap ReclaimedVersions = {}
    /\ last.err = NoError =>
           /\ Returned # {}
           /\ \A r, q \in Returned : r.version = q.version => r = q
           /\ Cardinality(Returned) = Len(last.realloc) + Len(last.created)

\* C22 as stated: a BOTH call chooses a subnet only for the versions its
\* reclaim did not cover, a successful result has one to two addresses of
\* different versions, and the call raises the exhaustion error only when it
\* reclaimed nothing and found no subnet of either version.
C22_Original ==
    (last.op = "AllocateIp" /\ last.strategy = "BOTH") =>
        /\ BothChoice
        /\ last.err # NoError =>
               /\ last.err = Exhausted
               /\ last.realloc = <<>>
               /\ ChosenSubnets = <<>>

\* C22 (amended): as stated, except that a BOTH call given a requested
\* address also raises the exhaustion error, with a subnet chosen, when a row
\* of the tenant with that address exists and was not reclaimed.
C22_Amended ==
    (last.op = "AllocateIp" /\ last.strategy = "BOTH") =>
        /\ BothChoice
        /\ last.err # NoError =>
               /\ last.err = Exhausted
               /\ last.realloc = <<>>
               /\ \/ ChosenSubnets = <<>>
                  \/ /\ last.ip_address # None
                     /\ \E r \in ips :
                            /\ r.address = last.ip_address
                            /\ r.used_by_tenant_id \in LifeTenants

\* a BOTH call reclaimed an IPv4 address and created an IPv6 one from the
\* one subnet it chose
C22_Witness ==
    /\ last.op = "AllocateIp"
    /\ last.strategy = "BOTH"
    /\ last.err = NoError
    /\ Len(last.realloc) = 1
    /\ Len(last.created) = 1
    /\ ReclaimedVersions = {4}
    /\ ChosenVersions = {6}

-----------------------------------------------------------------------------
(* Properties of the cursor and the rows drawn (SpecFresh) *)

\* C23 as stated: in every reachable state the cursor of each subnet, read
\* as an address, lies within the subnet's cidr, and every row created by
\* auto-draw (every row of this model) lies within the cidr of the subnet it
\* is recorded under.
C23_Original ==
    /\ \A id \in DOMAIN subnets :
           InCidr(subnets[id].next_auto_assign_ip, subnets[id])
    /\ \A r \in ips : InCidr(r.address, subnets[r.subnet_id])

-----------------------------------------------------------------------------
(* Properties of the MAC range cursor (SpecMac) *)

\* C24 as stated: in every reachable state each range has
\* first_address <= next_auto_assign_mac <= last_address + 1, and every row
\* created by auto-draw lies within first_address .. last_address of its range
\* (the rows created for a requested address are those of ReqMacs).
C24_Original ==
    /\ \A id \in DOMAIN ranges :
           /\ ranges[id].first_address <= ranges[id].next_auto_assign_mac
           /\ ranges[id].next_auto_assign_mac <= ranges[id].last_address + 1
    /\ \A m \in macs :
           m.address \notin ReqMacs =>
               /\ ranges[m.mac_address_range_id].first_address <= m.address
               /\ m.address <= ranges[m.mac_address_range_id].last_address

-----------------------------------------------------------------------------
(* Properties of calls that ask for an address (Spec) *)

\* the step is a call with a requested address that went on to allocate from
\* the subnets it chose (the strategy's choice raised nothing)
IsRequestedFreshStep ==
    /\ IsAllocStep
    /\ last'.ip_address # None
    /\ last'.selecting
    /\ last'.chosen # <<>>
    /\ \A i \in DOMAIN last'.chosen : last'.chosen[i] # NoSubnet
    /\ Len(last'.realloc) + Len(last'.chosen) >= RequiredCount(last'.strategy)

\* the rows of the tenant with the requested address that the step found in
\* the store and did not reclaim
StandingRows ==
    { r \in ips :
        /\ r.network_id = NetId
        /\ r.address = last'.ip_address
        /\ r.used_by_tenant_id \in LifeTenants
        /\ r.id \notin ToSet(last'.realloc) }

\* C25: fresh allocation of a requested address fails with the exhaustion
\* error, creating nothing, when a row of the tenant with that address is in
\* the store (allocated, or deallocated and not reclaimed by the call);
\* otherwise it creates one row with the requested address, in the subnet
\* chosen, and moves no cursor.
C25_RequestedFresh ==
    [][ IsRequestedFreshStep =>
        IF StandingRows # {}
        THEN /\ last'.err = Exhausted
             /\ last'.created = <<>>
             /\ ips' = ips
             /\ nextId' = nextId
             /\ subnets' = subnets
        ELSE /\ last'.err = NoError
             /\ Len(last'.created) = 1
             /\ \E r \in ips' \ ips :
                    /\ r.id = last'.created[1]
                    /\ r.address = last'.ip_address
                    /\ r.subnet_id = last'.chosen[1]
                    /\ ~r.deallocated
                    /\ ips' \ ips = {r}
             /\ \A id \in DOMAIN subnets :
                    subnets'[id].next_auto_assign_ip
                        = subnets[id].next_auto_assign_ip
      ]_vars

\* a call that asked for an address chose a subnet and failed, the address
\* being held by a deallocated row too young to reclaim
C25_Witness ==
    /\ last.op = "AllocateIp"
    /\ last.ip_address # None
    /\ last.err = Exhausted
    /\ last.realloc = <<>>
    /\ ChosenSubnets # <<>>
    /\ \E r \in ips : r.address = last.ip_address /\ r.deallocated
    /\ \A r \in ips : r.address = last.ip_address => r.deallocated

-----------------------------------------------------------------------------
(* Properties of the shared-network model (SpecTenants) *)

\* C26 as stated: whatever AllocateIp calls (drawn or by name, by either
\* tenant of the network) and DeallocateIp calls were made, no two rows of a
\* network that are not deallocated hold the same address.
C26_Original ==
    \A r, q \in ips :
        ( /\ ~r.deallocated
          /\ ~q.deallocated
          /\ r.network_id = q.network_id
          /\ r.address = q.address )
        => r = q

-----------------------------------------------------------------------------
(* Properties of the MAC rows created (SpecMac) *)

\* C27 as stated: AllocateMac never creates a row with the address of a row
\* that is in the store and not deallocated, whether the address was drawn
\* or asked for, whichever tenant holds the row.
C27_Original ==
    [][ ( /\ IsMacAllocStep
          /\ last'.err = NoError
          /\ ~last'.recycled )
        => \A m \in macs :
               m.address = last'.returned.address => m.deallocated
      ]_vars

-----------------------------------------------------------------------------
(* Properties of BOTH_REQUIRED calls that ask for an address (Spec) *)

\* C28: under BOTH_REQUIRED a call that carries a requested address ends
\* with the exhaustion error and creates nothing: the rows it reclaimed and
\* the subnets it chose number one at most.
C28_BothReqRequested ==
    ( /\ last.op = "AllocateIp"
      /\ last.strategy = "BOTH_REQUIRED"
      /\ last.ip_address # None )
    => /\ last.err = Exhausted
       /\ last.created = <<>>
       /\ Len(last.realloc) + Len(last.chosen) <= 1

\* a BOTH_REQUIRED call asked for an address on a network with an IPv4 and
\* an IPv6 subnet, reclaimed the row of that address and failed
C28_Witness ==
    /\ last.op = "AllocateIp"
    /\ last.strategy = "BOTH_REQUIRED"
    /\ last.ip_address # None
    /\ last.err = Exhausted
    /\ Len(last.realloc) = 1
    /\ DOMAIN subnets = {"s1", "s6"}

-----------------------------------------------------------------------------
(* Properties of the orphan model (SpecOrphan) *)

\* the last call searched the whole network (no subnet ids, no segment)
ByNetwork ==
    /\ hist.calls > 0
    /\ hist.args.subnets = {}
    /\ hist.args.segment_id = NoSegment

\* the rows a search of the last call for versions V could find, as the
\* store was before the call
NetCands(V) ==
    { r \in hist.before :
        /\ r.deallocated
        /\ r.deallocated_at # None
        /\ r.deallocated_at + hist.args.reuse_after <= now
        /\ r.version \in V }

Orphan(r) == r.subnet_id \notin DOMAIN subnets

\* the candidates of lower address than f
Below(V, f) == { q \in NetCands(V) : q.address < f.address }

\* the search for V comes to the row f without a subnet: whatever comes
\* before it has a subnet and lies outside its cidr, two rows at most
ComesTo(V, f) ==
    /\ f \in NetCands(V)
    /\ Orphan(f)
    /\ Cardinality(Below(V, f)) <= 2
    /\ \A q \in Below(V, f) : ~Orphan(q) /\ Corrupt(q)

\* C29: when the candidate ReallocateIp finds has no recorded subnet, the
\* search neither reclaims nor deletes it and ends with nothing reclaimed:
\* the row stays in the store as it was, deallocated, no row of the versions
\* searched is reclaimed, only the corrupt rows found before it are deleted,
\* and every other candidate stays as it was (so the same row is the lowest
\* candidate of the next search).
C29_NoSubnetBlocks ==
    ByNetwork =>
        \A V \in Searches : \A f \in hist.before :
            ComesTo(V, f) =>
                /\ f \in ips
                /\ f.deallocated
                /\ \A r \in hist.before :
                       (r.version \in V /\ r.id \in ToSet(last.realloc)) => FALSE
                /\ \A r \in NetCands(V) \ Below(V, f) : r \in ips
                /\ last.err = NoError =>
                       \A q \in Below(V, f) : q.id \notin { r.id : r \in ips }

\* a second call, an ANY search of the whole network, came to the row
\* without a subnet, as any search before it had: the row is still there,
\* deallocated, and so is the consistent candidate above it; the call
\* reclaimed nothing and each of the two calls created a row
C29_Witness ==
    /\ hist.calls = 2
    /\ hist.strategy = "ANY"
    /\ ByNetwork
    /\ SeedIp(2, Net4 + 1, NoSubnetId, 4) \in ips \cap hist.before
    /\ SeedIp(3, Net4 + 2, "s1", 4) \in ips \cap hist.before
    /\ SeedIp(1, Net4 - 1, "s1", 4) \notin hist.before
    /\ last.err = NoError
    /\ last.realloc = <<>>
    /\ last.created # <<>>
    /\ Cardinality({ r \in ips : ~r.deallocated }) = 2

-----------------------------------------------------------------------------
(* Properties of the retries of ReallocateIp (SpecHeal) *)

\* the last call searched by explicit subnet ids or by segment
ByIdsOrSegment ==
    /\ hist.calls > 0
    /\ (hist.args.subnets # {} \/ hist.args.segment_id # NoSegment)

\* C30 as stated: every retry of ReallocateIp searches the subnet ids the
\* first attempt searched (the explicit list, or the ids of the segment's
\* subnets).  A retry follows the deletion of a corrupt row, so with the
\* same ids searched each of up to three attempts meets the lowest candidate
\* left: a successful call has deleted the (up to 3) corrupt candidates of
\* lowest address and, when fewer than three come first, reclaimed the
\* lowest consistent candidate.
C30_Original ==
    (ByIdsOrSegment /\ last.err = NoError) =>
        \A V \in Searches :
            /\ Cardinality(Purged(V)) =
                   IF Cardinality(Leading(V)) < 3
                   THEN Cardinality(Leading(V)) ELSE 3
            /\ ( /\ Cardinality(Leading(V)) < 3
                 /\ HealCands(V) \ Leading(V) # {} )
                   => LowestReclaimed(V)

-----------------------------------------------------------------------------
(* Properties of the port-deletion model (SpecDelete) *)

\* the step is a delete_port call for the port p, which is in the port table
IsDeleteStep(p) ==
    /\ last'.op = "DeletePort"
    /\ last'.port = p
    /\ hist.ports[p].exists

\* C31: a delete_port call for a port whose MAC row is not in the store
\* fails with not-found, deallocates no IP address and leaves the port and
\* its addresses as they were; otherwise it succeeds: a MAC row of the
\* port's address is deallocated and stamped, every IP address the port
\* alone owned is deallocated and stamped, an address another port owns too
\* stays as it was, the port owns nothing and is gone from the port table.
C31_DeletePort ==
    [][ \A p \in Ports :
        IsDeleteStep(p) =>
            IF \A m \in macs : m.address # hist.ports[p].mac_address
            THEN /\ last'.err = NotFound
                 /\ ips' = ips
                 /\ portIps' = portIps
                 /\ macs' = macs
                 /\ hist'.ports[p].exists
            ELSE /\ last'.err = NoError
                 /\ ~hist'.ports[p].exists
                 /\ \E m \in macs :
                        /\ m.address = hist.ports[p].mac_address
                        /\ macs' = (macs \ {m}) \cup
                               {[m EXCEPT !.deallocated = TRUE,
                                          !.deallocated_at = now]}
                 /\ portIps'[p] = {}
                 /\ \A q \in Ports \ {p} : portIps'[q] = portIps[q]
                 /\ { r.id : r \in ips' } = { r.id : r \in ips }
                 /\ \A r \in ips :
                        IF r.id \in portIps[p] /\ PortsOf(portIps, r.id) = {p}
                        THEN /\ After(r).deallocated
                             /\ After(r).deallocated_at = now
                        ELSE r \in ips'
      ]_vars

\* a port that had an address of its own and an address shared with the
\* other port was deleted: the first is deallocated, the second is not and
\* the other port owns it
C31_Witness ==
    /\ last.op = "DeletePort"
    /\ last.err = NoError
    /\ \E r, q \in ips :
           /\ r.id \in last.had
           /\ q.id \in last.had
           /\ r.deallocated
           /\ PortsOf(portIps, r.id) = {}
           /\ ~q.deallocated
           /\ PortsOf(portIps, q.id) # {}
    /\ \E m \in macs :
           m.address = hist.ports[last.port].mac_address /\ m.deallocated

-----------------------------------------------------------------------------
(* Properties of the scan model (SpecScan) *)

\* C32: a call that has entered the loop of a draw, which it does after the
\* subnet or the range passed the capacity check, leaves the loop and ends
\* after finitely many iterations.
C32_ScanTerminates == (pc \in {"ipscan", "macscan"}) ~> (pc = "idle")

\* C32, the calls as wholes: a call ends with a row created when it ran a
\* loop, and the loop passed over every candidate that was taken
C32_Witness ==
    /\ pc = "idle"
    /\ hist.ipSteps >= 3
    /\ hist.macSteps >= 2

====
